---- MODULE Spec2Model ----
(***************************************************************************)
(* Model of the compiler front end: the hand-written scanner               *)
(* (src/src/lexer.cpp), the AST services (src/src/ast.cpp) and the         *)
(* recursive-descent parser (src/src/parser.cpp).                          *)
(*                                                                         *)
(* C strings are sequences of one-character strings.  Positions are        *)
(* 0-based as in the code, so source[position] of the code is              *)
(* l.source[l.position + 1] here.                                          *)
(***************************************************************************)
EXTENDS Integers, Sequences, FiniteSets, TLC

VARIABLES lexer, tok, calls, recon, parser, program, pc, null_deref,
          pool, heap, returned, nodes, roots, codegen, driver

\* the scanner and the parser with their callers
frontVars == <<lexer, tok, calls, recon, parser, program, pc, null_deref>>

\* the other parts of the program: a string pool, the C heap it lives in
\* and the pointers its callers hold; the ast_node structs in memory and
\* the trees a caller of copy_node holds; the code generator; main()
backVars == <<pool, heap, returned, nodes, roots, codegen, driver>>

vars == <<frontVars, backVars>>

(***************************************************************************)
(* Bounds of the model.                                                    *)
(***************************************************************************)
MaxSrcLen == 4

\* the character read by peek() past the end of the buffer, and the byte 0
NUL == "NUL"

\* a null char* (never equal to a sequence of one-character strings)
NullStr == <<"(null)">>

Digits == {"0", "1", "2", "3", "4", "5", "6", "7", "8", "9"}

Letters == {"a", "b", "c", "d", "e", "f", "g", "h", "i", "j", "k", "l", "m",
            "n", "o", "p", "q", "r", "s", "t", "u", "v", "w", "x", "y", "z",
            "A", "B", "C", "D", "E", "F", "G", "H", "I", "J", "K", "L", "M",
            "N", "O", "P", "Q", "R", "S", "T", "U", "V", "W", "X", "Y", "Z"}

isdigit(c) == c \in Digits

\* all sequences over S of length at most n
RECURSIVE SeqsUpTo(_, _)
SeqsUpTo(S, n) ==
    IF n = 0 THEN {<<>>}
    ELSE LET shorter == SeqsUpTo(S, n - 1)
         IN  shorter \cup {Append(s, c) : s \in {t \in shorter : Len(t) = n - 1}, c \in S}

(***************************************************************************)
(* Lexer (src/src/lexer.cpp)                                               *)
(***************************************************************************)
create_lexer(source) ==
    [source |-> source, position |-> 0, line |-> 1, column |-> 1,
     length |-> Len(source), track_newlines |-> FALSE]

\* source[position] for position < length
CharAt(l) == l.source[l.position + 1]

\* an advance that counts every character as one column of the same line
advance_same_line(l) ==
    IF l.position < l.length THEN [l EXCEPT !.column = @ + 1, !.position = @ + 1] ELSE l

advance(l) ==
    IF l.position < l.length
    THEN IF CharAt(l) = "\n"
         THEN [l EXCEPT !.line = @ + 1, !.column = 1, !.position = @ + 1]
         ELSE [l EXCEPT !.column = @ + 1, !.position = @ + 1]
    ELSE l

peek(l, offset) ==
    LET pos == l.position + offset
    IN  IF pos >= l.length THEN NUL ELSE l.source[pos + 1]

RECURSIVE skip_whitespace(_)
skip_whitespace(l) ==
    IF l.position < l.length
    THEN LET c == CharAt(l)
         IN  IF c = " " \/ c = "\t" \/ c = "\r"
             THEN skip_whitespace(advance(l))
             ELSE IF c = "\n"
                  THEN IF l.track_newlines THEN l ELSE skip_whitespace(advance(l))
                  ELSE l
    ELSE l

RECURSIVE SkipToLineEnd(_)
SkipToLineEnd(l) ==
    IF l.position < l.length /\ CharAt(l) # "\n"
    THEN SkipToLineEnd(advance(l))
    ELSE l

skip_line_comment(l) == SkipToLineEnd(advance(advance(l)))

RECURSIVE SkipToCommentEnd(_)
SkipToCommentEnd(l) ==
    IF l.position < l.length - 1
    THEN IF CharAt(l) = "*" /\ l.source[l.position + 2] = "/"
         THEN advance(advance(l))
         ELSE SkipToCommentEnd(advance(l))
    ELSE l

skip_block_comment(l) == SkipToCommentEnd(advance(advance(l)))

RECURSIVE SkipDigits(_)
SkipDigits(l) ==
    IF l.position < l.length /\ isdigit(CharAt(l))
    THEN SkipDigits(advance(l))
    ELSE l

\* source + start_pos, length position - start_pos
Lexeme(l, start_pos) == SubSeq(l.source, start_pos + 1, l.position)

\* every scanning function returns the token and the lexer it leaves behind;
\* start is the position at which the token's text begins
Scanned(type, value, line, column, l, start) ==
    [lexer |-> l, start |-> start,
     token |-> [type |-> type, value |-> value, line |-> line, column |-> column]]

\* the optional sign of an exponent
SkipSign(l) ==
    IF l.position < l.length /\ (CharAt(l) = "+" \/ CharAt(l) = "-") THEN advance(l) ELSE l

\* Each step of a scanning function is a local operator applied to the lexer
\* the step before it leaves behind.
read_number(l, start_col) ==
    LET Token(l5, is_float) ==
            Scanned(IF is_float THEN "TOKEN_FLOAT" ELSE "TOKEN_NUMBER",
                    Lexeme(l5, l.position), l5.line, start_col, l5, l.position)
        \* scientific notation
        Exponent(l2, is_float) ==
            IF l2.position < l2.length /\ (CharAt(l2) = "e" \/ CharAt(l2) = "E")
            THEN Token(SkipDigits(SkipSign(advance(l2))), TRUE)
            ELSE Token(l2, is_float)
        \* decimal point and fractional part
        Fraction(l1) ==
            IF l1.position < l1.length /\ CharAt(l1) = "."
            THEN Exponent(SkipDigits(advance(l1)), TRUE)
            ELSE Exponent(l1, FALSE)
    IN  Fraction(SkipDigits(l))

RECURSIVE SkipStringBody(_)
SkipStringBody(l) ==
    LET \* the character after a backslash is skipped with it
        Escaped(l1) == IF l1.position < l1.length THEN advance(l1) ELSE l1
    IN  IF l.position < l.length /\ CharAt(l) # "\""
        THEN IF CharAt(l) = "\\"
             THEN SkipStringBody(Escaped(advance(l)))
             ELSE SkipStringBody(advance(l))
        ELSE l

read_string(l, start_col) ==
    LET Token(value, l3) == Scanned("TOKEN_STRING", value, l3.line, start_col, l3, l.position)
        \* the value is cut before the closing quote is skipped
        Close(start_pos, l2) ==
            Token(Lexeme(l2, start_pos), IF l2.position < l2.length THEN advance(l2) ELSE l2)
        Body(l1) == Close(l1.position, SkipStringBody(l1))
    IN  Body(advance(l))

EscapedChar(c) ==
    CASE c = "n" -> "\n"
      [] c = "t" -> "\t"
      [] c = "r" -> "\r"
      [] c = "\\" -> "\\"
      [] c = "'" -> "'"
      [] c = "0" -> NUL
      [] OTHER -> c

\* the two-byte buffer {char_value, 0} read as a C string
CharLexeme(char_value) == IF char_value = NUL THEN <<>> ELSE <<char_value>>

read_char(l, start_col) ==
    LET Token(char_value, l4) ==
            Scanned("TOKEN_CHAR", CharLexeme(char_value), l4.line, start_col, l4, l.position)
        Close(char_value, l3) ==
            Token(char_value,
                  IF l3.position < l3.length /\ CharAt(l3) = "'" THEN advance(l3) ELSE l3)
        Escape(l2) ==
            IF l2.position < l2.length
            THEN Close(EscapedChar(CharAt(l2)), advance(l2))
            ELSE Close(NUL, l2)
        Body(l1) ==
            IF l1.position < l1.length /\ CharAt(l1) # "'"
            THEN IF CharAt(l1) = "\\"
                 THEN Escape(advance(l1))
                 ELSE Close(CharAt(l1), advance(l1))
            ELSE Close(NUL, l1)
    IN  Body(advance(l))

get_keyword_type(value) ==
    CASE value = <<"i", "8">> -> "TOKEN_I8"
      [] value = <<"i", "1", "6">> -> "TOKEN_I16"
      [] value = <<"i", "3", "2">> -> "TOKEN_I32"
      [] value = <<"i", "6", "4">> -> "TOKEN_I64"
      [] value = <<"u", "8">> -> "TOKEN_U8"
      [] value = <<"u", "1", "6">> -> "TOKEN_U16"
      [] value = <<"u", "3", "2">> -> "TOKEN_U32"
      [] value = <<"u", "6", "4">> -> "TOKEN_U64"
      [] value = <<"f", "3", "2">> -> "TOKEN_F32"
      [] value = <<"f", "6", "4">> -> "TOKEN_F64"
      [] value = <<"b", "o", "o", "l">> -> "TOKEN_BOOL_TYPE"
      [] value = <<"v", "o", "i", "d">> -> "TOKEN_VOID"
      [] value = <<"s", "t", "r", "u", "c", "t">> -> "TOKEN_STRUCT"
      [] value = <<"e", "n", "u", "m">> -> "TOKEN_ENUM"
      [] value = <<"u", "n", "i", "o", "n">> -> "TOKEN_UNION"
      [] value = <<"r", "e", "t", "u", "r", "n">> -> "TOKEN_RETURN"
      [] value = <<"i", "f">> -> "TOKEN_IF"
      [] value = <<"e", "l", "s", "e">> -> "TOKEN_ELSE"
      [] value = <<"w", "h", "i", "l", "e">> -> "TOKEN_WHILE"
      [] value = <<"f", "o", "r">> -> "TOKEN_FOR"
      [] value = <<"d", "o">> -> "TOKEN_DO"
      [] value = <<"s", "w", "i", "t", "c", "h">> -> "TOKEN_SWITCH"
      [] value = <<"c", "a", "s", "e">> -> "TOKEN_CASE"
      [] value = <<"d", "e", "f", "a", "u", "l", "t">> -> "TOKEN_DEFAULT"
      [] value = <<"b", "r", "e", "a", "k">> -> "TOKEN_BREAK"
      [] value = <<"c", "o", "n", "t", "i", "n", "u", "e">> -> "TOKEN_CONTINUE"
      [] value = <<"c", "o", "n", "s", "t">> -> "TOKEN_CONST"
      [] value = <<"s", "t", "a", "t", "i", "c">> -> "TOKEN_STATIC"
      [] value = <<"e", "x", "t", "e", "r", "n">> -> "TOKEN_EXTERN"
      [] value = <<"s", "i", "z", "e", "o", "f">> -> "TOKEN_SIZEOF"
      [] value = <<"t", "r", "u", "e">> -> "TOKEN_TRUE"
      [] value = <<"f", "a", "l", "s", "e">> -> "TOKEN_FALSE"
      [] value = <<"n", "u", "l", "l">> -> "TOKEN_NULL"
      [] value = <<"i", "m", "p", "o", "r", "t">> -> "TOKEN_IMPORT"
      [] value = <<"e", "x", "p", "o", "r", "t">> -> "TOKEN_EXPORT"
      [] value = <<"m", "o", "d", "u", "l", "e">> -> "TOKEN_MODULE"
      [] OTHER -> "TOKEN_IDENTIFIER"

is_valid_identifier_start(c) == c \in Letters \/ c = "_"

is_valid_identifier_char(c) == c \in Letters \/ c \in Digits \/ c = "_"

RECURSIVE SkipIdentifierChars(_)
SkipIdentifierChars(l) ==
    IF l.position < l.length /\ is_valid_identifier_char(CharAt(l))
    THEN SkipIdentifierChars(advance(l))
    ELSE l

\* read_identifier with the lexeme cut one character short
read_identifier_short(l, start_col) ==
    LET Token(value, l1) ==
            Scanned(get_keyword_type(value), value, l1.line, start_col, l1, l.position)
        Cut(l1) == Token(SubSeq(l.source, l.position + 1, l1.position - 1), l1)
    IN  Cut(SkipIdentifierChars(l))

read_identifier(l, start_col) ==
    LET Token(value, l1) ==
            Scanned(get_keyword_type(value), value, l1.line, start_col, l1, l.position)
        Cut(l1) == Token(Lexeme(l1, l.position), l1)
    IN  Cut(SkipIdentifierChars(l))

\* the two-character operators, tested in this order before any single one
TwoCharOperators ==
    << <<"+", "+", "TOKEN_INCREMENT">>, <<"-", "-", "TOKEN_DECREMENT">>,
       <<"+", "=", "TOKEN_PLUS_ASSIGN">>, <<"-", "=", "TOKEN_MINUS_ASSIGN">>,
       <<"*", "=", "TOKEN_MULTIPLY_ASSIGN">>, <<"/", "=", "TOKEN_DIVIDE_ASSIGN">>,
       <<"%", "=", "TOKEN_MODULO_ASSIGN">>, <<"=", "=", "TOKEN_EQUAL">>,
       <<"!", "=", "TOKEN_NOT_EQUAL">>, <<"<", "=", "TOKEN_LESS_EQUAL">>,
       <<">", "=", "TOKEN_GREATER_EQUAL">>, <<"&", "&", "TOKEN_LOGICAL_AND">>,
       <<"|", "|", "TOKEN_LOGICAL_OR">>, <<"<", "<", "TOKEN_LEFT_SHIFT">>,
       <<">", ">", "TOKEN_RIGHT_SHIFT">>, <<"-", ">", "TOKEN_ARROW">> >>

\* the single-character tokens of the switch in next_token
SingleCharTokens ==
    [c \in {"+", "-", "*", "/", "%", "=", "<", ">", "!", "&", "|", "^", "~", ".",
            ";", ":", ",", "(", ")", "{", "}", "[", "]", "?"} |->
        CASE c = "+" -> "TOKEN_PLUS"
          [] c = "-" -> "TOKEN_MINUS"
          [] c = "*" -> "TOKEN_MULTIPLY"
          [] c = "/" -> "TOKEN_DIVIDE"
          [] c = "%" -> "TOKEN_MODULO"
          [] c = "=" -> "TOKEN_ASSIGN"
          [] c = "<" -> "TOKEN_LESS_THAN"
          [] c = ">" -> "TOKEN_GREATER_THAN"
          [] c = "!" -> "TOKEN_LOGICAL_NOT"
          [] c = "&" -> "TOKEN_BITWISE_AND"
          [] c = "|" -> "TOKEN_BITWISE_OR"
          [] c = "^" -> "TOKEN_BITWISE_XOR"
          [] c = "~" -> "TOKEN_BITWISE_NOT"
          [] c = "." -> "TOKEN_DOT"
          [] c = ";" -> "TOKEN_SEMICOLON"
          [] c = ":" -> "TOKEN_COLON"
          [] c = "," -> "TOKEN_COMMA"
          [] c = "(" -> "TOKEN_LEFT_PAREN"
          [] c = ")" -> "TOKEN_RIGHT_PAREN"
          [] c = "{" -> "TOKEN_LEFT_BRACE"
          [] c = "}" -> "TOKEN_RIGHT_BRACE"
          [] c = "[" -> "TOKEN_LEFT_BRACKET"
          [] c = "]" -> "TOKEN_RIGHT_BRACKET"
          [] c = "?" -> "TOKEN_QUESTION"]

\* the unknown-character branch without its advance
ScanInvalid_stuck(l, c, start_col) ==
    Scanned("TOKEN_INVALID", <<c>>, l.line, start_col, l, l.position)

\* the branch taken for an unknown character
ScanInvalid(l, c, start_col) ==
    Scanned("TOKEN_INVALID", <<c>>, l.line, start_col, advance(l), l.position)

\* the two-character operators spelt c next_c (none or one)
TwoCharMatches(c, next_c) ==
    {op \in {TwoCharOperators[i] : i \in 1..Len(TwoCharOperators)} :
        op[1] = c /\ op[2] = next_c}

\* next_token once whitespace and comments are behind: l.position < l.length
ScanToken(l) ==
    LET start_col == l.column
        Single(c) ==
            CASE c = "\"" -> read_string(l, start_col)
              [] c = "'" -> read_char(l, start_col)
              [] c \in DOMAIN SingleCharTokens ->
                    Scanned(SingleCharTokens[c], <<c>>, l.line, start_col, advance(l),
                            l.position)
              [] isdigit(c) -> read_number(l, start_col)
              [] is_valid_identifier_start(c) -> read_identifier(l, start_col)
              [] OTHER -> ScanInvalid(l, c, start_col)
        Double(two) ==
            IF two # {}
            THEN Scanned((CHOOSE op \in two : TRUE)[3], <<CharAt(l), peek(l, 1)>>, l.line,
                         start_col, advance(advance(l)), l.position)
            ELSE Single(CharAt(l))
    IN  Double(TwoCharMatches(CharAt(l), peek(l, 1)))

\* next_token stepping over the terminator each time it reports the end
RECURSIVE next_token_overrun(_)
next_token_overrun(l) ==
    LET Scan(l1) ==
            CASE l1.position >= l1.length ->
                    Scanned("TOKEN_EOF", <<>>, l1.line, l1.column,
                            [l1 EXCEPT !.position = @ + 1, !.column = @ + 1], l1.position)
              [] l1.position < l1.length /\ CharAt(l1) = "/" /\ peek(l1, 1) = "/" ->
                    next_token_overrun(skip_line_comment(l1))
              [] l1.position < l1.length /\ CharAt(l1) = "/" /\ peek(l1, 1) = "*" ->
                    next_token_overrun(skip_block_comment(l1))
              [] OTHER -> ScanToken(l1)
    IN  Scan(skip_whitespace(l))

RECURSIVE next_token(_)
next_token(l) ==
    LET Scan(l1) ==
            CASE l1.position >= l1.length ->
                    Scanned("TOKEN_EOF", <<>>, l1.line, l1.column, l1, l1.position)
              [] l1.position < l1.length /\ CharAt(l1) = "/" /\ peek(l1, 1) = "/" ->
                    next_token(skip_line_comment(l1))
              [] l1.position < l1.length /\ CharAt(l1) = "/" /\ peek(l1, 1) = "*" ->
                    next_token(skip_block_comment(l1))
              [] OTHER -> ScanToken(l1)
    IN  Scan(skip_whitespace(l))

(***************************************************************************)
(* AST services (src/src/ast.cpp).  A node is its kind, its value string   *)
(* and the sequence of its children; NullNode is the null ast_node*.       *)
(***************************************************************************)
NullNode == [type |-> "NULL", value |-> NullStr, children |-> <<>>]

create_node(type) == [type |-> type, value |-> NullStr, children |-> <<>>]

add_child(parent, child) ==
    IF parent = NullNode \/ child = NullNode
    THEN parent
    ELSE [parent EXCEPT !.children = Append(@, child)]

\* node->value = v
WithValue(node, v) == [node EXCEPT !.value = v]

RECURSIVE validate_ast(_)
validate_ast(root) ==
    IF root = NullNode THEN FALSE
    ELSE IF \E i \in 1..Len(root.children) : ~validate_ast(root.children[i]) THEN FALSE
    ELSE LET child_count == Len(root.children)
         IN  CASE root.type = "NODE_FUNCTION" -> child_count >= 2
               [] root.type = "NODE_BINARY_OP" -> child_count = 2
               [] root.type = "NODE_UNARY_OP" -> child_count = 1
               [] root.type = "NODE_IF_STATEMENT" -> child_count >= 2 /\ child_count <= 3
               [] root.type = "NODE_WHILE_STATEMENT" -> child_count = 2
               [] root.type = "NODE_FOR_STATEMENT" -> child_count >= 3 /\ child_count <= 4
               [] OTHER -> TRUE

(***************************************************************************)
(* Parser (src/src/parser.cpp).                                            *)
(*                                                                         *)
(* A parser value p holds the fields of struct parser (the lexer it points *)
(* to included) and                                                        *)
(*   status  "ok" while the code runs, "crash" once it has dereferenced a  *)
(*           null pointer in a build where that kills the process, "hang"  *)
(*           once a loop has run an iteration that changed nothing, which  *)
(*           it then repeats for ever;                                     *)
(*   log     one entry per call of parser_error_at_current.                *)
(* Once status is not "ok" no further code runs: check() fails, is_at_end()*)
(* holds and parser_advance() does nothing, so every function returns.     *)
(* Every parse function returns [node, p]: the node it returns and the     *)
(* parser it leaves behind.                                                *)
(***************************************************************************)
Halted(p) == p.status # "ok"

\* the fields of p that the code can read: two parsers with the same
\* Visible run the same code from here on
Visible(p) == <<p.lexer, p.current_token, p.error_count, p.panic_mode>>

\* the end of one iteration of a loop that started from p0 and ended in p1
EndOfIteration(p0, p1) ==
    IF ~Halted(p1) /\ Visible(p1) = Visible(p0)
    THEN [p1 EXCEPT !.status = "hang"]
    ELSE p1

\* parser_error_at_current counting every report, panic mode or not
parser_error_at_current_always(p) ==
    [p EXCEPT !.panic_mode = TRUE, !.error_count = @ + 1]

parser_error_at_current(p) ==
    IF p.panic_mode THEN p
    ELSE [p EXCEPT !.panic_mode = TRUE, !.error_count = @ + 1]

\* a call of parser_error_at_current, entered in the log
report_error(p) ==
    LET Logged(q) ==
            [q EXCEPT !.log = Append(@, [panic_mode |-> p.panic_mode,
                                         before |-> p.error_count,
                                         after |-> q.error_count,
                                         panic_after |-> q.panic_mode])]
    IN  IF Halted(p) THEN p ELSE Logged(parser_error_at_current(p))

create_parser(l) ==
    LET First(r) ==
            [lexer |-> r.lexer, current_token |-> r.token, error_count |-> 0,
             panic_mode |-> FALSE, status |-> "ok", log |-> <<>>]
    IN  First(next_token(l))

\* The functions of the parser call each other recursively.  The calls of
\* the five functions that the others meet in go through Call, which names
\* the function called; Call is defined below the last of them.
RECURSIVE Call(_, _)

parser_advance(p) == Call("parser_advance", p)

parse_expression(p) == Call("parse_expression", p)

parse_type(p) == Call("parse_type", p)

parse_statement(p) == Call("parse_statement", p)

parse_declaration(p) == Call("parse_declaration", p)

\* In the parsing functions each step is a local operator applied to what the
\* step before it returns; the steps read from the last line upwards in the
\* order of the code.
parser_advance_body(p) ==
    LET Current(p1) ==
            IF p1.current_token.type = "TOKEN_INVALID" THEN report_error(p1) ELSE p1
        Scan(r) == Current([p EXCEPT !.lexer = r.lexer, !.current_token = r.token])
    IN  IF Halted(p) THEN p ELSE Scan(next_token(p.lexer))

check(p, type) == ~Halted(p) /\ p.current_token.type = type

\* consume returns a bool that no caller reads; only the parser is returned
consume(p, expected) ==
    IF check(p, expected) THEN parser_advance(p) ELSE report_error(p)

match(p, type) ==
    IF check(p, type) THEN [ok |-> TRUE, p |-> parser_advance(p)]
    ELSE [ok |-> FALSE, p |-> p]

\* match(t1) || match(t2) || ...
MatchAny(p, types) ==
    IF ~Halted(p) /\ p.current_token.type \in types
    THEN [ok |-> TRUE, p |-> parser_advance(p)]
    ELSE [ok |-> FALSE, p |-> p]

is_at_end(p) == Halted(p) \/ p.current_token.type = "TOKEN_EOF"

PrimitiveTypeTokens ==
    {"TOKEN_I8", "TOKEN_I16", "TOKEN_I32", "TOKEN_I64", "TOKEN_U8", "TOKEN_U16",
     "TOKEN_U32", "TOKEN_U64", "TOKEN_F32", "TOKEN_F64", "TOKEN_BOOL_TYPE", "TOKEN_VOID"}

is_type_token(type) ==
    type \in PrimitiveTypeTokens \cup {"TOKEN_STRUCT", "TOKEN_ENUM", "TOKEN_UNION"}

\* a previous_token that remembers the token just consumed is not what the
\* code has: it returns {TOKEN_INVALID, NULL, 0, 0} whatever was matched
previous_token(p) ==
    [type |-> "TOKEN_INVALID", value |-> NullStr, line |-> 0, column |-> 0]

\* string_duplicate(str, strlen(str)): strlen of a null pointer is undefined;
\* the build either dies there or reads it as the empty string
DuplicateString(p, str) ==
    IF Halted(p) THEN [value |-> NullStr, p |-> p]
    ELSE IF str = NullStr
         THEN IF null_deref = "crash"
              THEN [value |-> NullStr, p |-> [p EXCEPT !.status = "crash"]]
              ELSE [value |-> <<>>, p |-> p]
         ELSE [value |-> str, p |-> p]

\* node->value = string_duplicate(op.value, strlen(op.value)), op a token
ValueFromToken(node, op, p) ==
    LET Valued(d) == [node |-> WithValue(node, d.value), p |-> d.p]
    IN  Valued(DuplicateString(p, op.value))

\* the operators of the ten left-associative levels, lowest binding first
BinaryLevels ==
    << {"TOKEN_LOGICAL_OR"}, {"TOKEN_LOGICAL_AND"}, {"TOKEN_BITWISE_OR"},
       {"TOKEN_BITWISE_XOR"}, {"TOKEN_BITWISE_AND"},
       {"TOKEN_EQUAL", "TOKEN_NOT_EQUAL"},
       {"TOKEN_LESS_THAN", "TOKEN_GREATER_THAN", "TOKEN_LESS_EQUAL", "TOKEN_GREATER_EQUAL"},
       {"TOKEN_LEFT_SHIFT", "TOKEN_RIGHT_SHIFT"},
       {"TOKEN_PLUS", "TOKEN_MINUS"},
       {"TOKEN_MULTIPLY", "TOKEN_DIVIDE", "TOKEN_MODULO"} >>

AssignmentTokens ==
    {"TOKEN_ASSIGN", "TOKEN_PLUS_ASSIGN", "TOKEN_MINUS_ASSIGN",
     "TOKEN_MULTIPLY_ASSIGN", "TOKEN_DIVIDE_ASSIGN", "TOKEN_MODULO_ASSIGN"}

UnaryTokens ==
    {"TOKEN_LOGICAL_NOT", "TOKEN_BITWISE_NOT", "TOKEN_MINUS", "TOKEN_PLUS",
     "TOKEN_MULTIPLY", "TOKEN_BITWISE_AND", "TOKEN_INCREMENT", "TOKEN_DECREMENT"}

\* the literal and identifier primaries and the node each one becomes
PrimaryNodes ==
    [t \in {"TOKEN_TRUE", "TOKEN_FALSE", "TOKEN_NUMBER", "TOKEN_FLOAT",
            "TOKEN_STRING", "TOKEN_CHAR", "TOKEN_IDENTIFIER"} |->
        CASE t \in {"TOKEN_TRUE", "TOKEN_FALSE"} -> "NODE_BOOL_LITERAL"
          [] t = "TOKEN_NUMBER" -> "NODE_NUMBER_LITERAL"
          [] t = "TOKEN_FLOAT" -> "NODE_FLOAT_LITERAL"
          [] t = "TOKEN_STRING" -> "NODE_STRING_LITERAL"
          [] t = "TOKEN_CHAR" -> "NODE_CHAR_LITERAL"
          [] t = "TOKEN_IDENTIFIER" -> "NODE_IDENTIFIER"]


RECURSIVE parse_assignment(_), parse_ternary(_),
          parse_binary(_, _), ThroughLevels(_, _, _), BinaryLoop(_, _, _),
          BinaryOperand(_, _), parse_unary(_), parse_postfix(_), PostfixLoop(_, _),
          ArgumentLoop(_, _), parse_primary(_)

parse_primary(p) ==
    LET Literal(p1) ==
            ValueFromToken(create_node(PrimaryNodes[p.current_token.type]),
                           previous_token(p1), p1)
        Parenthesised(r) == [node |-> r.node, p |-> consume(r.p, "TOKEN_RIGHT_PAREN")]
    IN  CASE ~Halted(p) /\ p.current_token.type \in DOMAIN PrimaryNodes ->
                Literal(parser_advance(p))
          [] check(p, "TOKEN_NULL") ->
                [node |-> WithValue(create_node("NODE_NULL_LITERAL"), <<"n", "u", "l", "l">>),
                 p |-> parser_advance(p)]
          [] check(p, "TOKEN_LEFT_PAREN") -> Parenthesised(parse_expression(parser_advance(p)))
          [] OTHER -> [node |-> NullNode, p |-> report_error(p)]

\* do { arg = parse_expression(); if (arg) add_child(call, arg); }
\* while (match(TOKEN_COMMA));
ArgumentLoop(call, p) ==
    LET Comma(call1, m) ==
            IF m.ok THEN ArgumentLoop(call1, m.p) ELSE [node |-> call1, p |-> m.p]
        Argument(r) ==
            IF Halted(r.p) THEN [node |-> add_child(call, r.node), p |-> r.p]
            ELSE Comma(add_child(call, r.node), match(r.p, "TOKEN_COMMA"))
    IN  Argument(parse_expression(p))

\* the while (true) of parse_postfix, expr being the expression so far
PostfixLoop(expr, p) ==
    LET \* expr [ index ]
        Index(array_access, q) ==
            IF Halted(q) THEN [node |-> array_access, p |-> q]
            ELSE PostfixLoop(array_access, consume(q, "TOKEN_RIGHT_BRACKET"))
        Subscript(r) ==
            Index(add_child(add_child(create_node("NODE_ARRAY_ACCESS"), expr), r.node), r.p)
        \* expr ( arguments )
        Close(args) ==
            IF Halted(args.p) THEN args
            ELSE PostfixLoop(args.node, consume(args.p, "TOKEN_RIGHT_PAREN"))
        Arguments(call, q) ==
            IF Halted(q) \/ check(q, "TOKEN_RIGHT_PAREN")
            THEN Close([node |-> call, p |-> q])
            ELSE Close(ArgumentLoop(call, q))
        Named(d) == Arguments(WithValue(create_node("NODE_FUNCTION_CALL"), d.value), d.p)
        \* expr->value read through a null expr
        Callee(p1) ==
            IF expr = NullNode
            THEN Named(DuplicateString(p1, NullStr))
            ELSE Named([value |-> IF expr.value = NullStr THEN <<>> ELSE expr.value,
                        p |-> p1])
        \* expr . member   and   expr -> member
        Access(v, member_name) ==
            PostfixLoop(add_child(add_child(v.node, expr),
                                  WithValue(create_node("NODE_IDENTIFIER"), member_name)),
                        v.p)
        Member(p1) ==
            IF ~check(p1, "TOKEN_IDENTIFIER")
            THEN [node |-> expr, p |-> report_error(p1)]
            ELSE Access(ValueFromToken(create_node("NODE_MEMBER_ACCESS"), previous_token(p1),
                                       parser_advance(p1)),
                        p1.current_token.value)
        \* expr ++   and   expr --
        Valued(v) == PostfixLoop(add_child(v.node, expr), v.p)
        Postfix(p1) == Valued(ValueFromToken(create_node("NODE_POSTFIX_OP"),
                                             previous_token(p1), p1))
    IN  CASE check(p, "TOKEN_LEFT_BRACKET") -> Subscript(parse_expression(parser_advance(p)))
          [] check(p, "TOKEN_LEFT_PAREN") -> Callee(parser_advance(p))
          [] check(p, "TOKEN_DOT") \/ check(p, "TOKEN_ARROW") -> Member(parser_advance(p))
          [] check(p, "TOKEN_INCREMENT") \/ check(p, "TOKEN_DECREMENT") ->
                Postfix(parser_advance(p))
          [] OTHER -> [node |-> expr, p |-> p]

parse_postfix(p) ==
    LET Primary(r) == IF Halted(r.p) THEN r ELSE PostfixLoop(r.node, r.p)
    IN  Primary(parse_primary(p))

parse_unary(p) ==
    LET Valued(operand, v) == [node |-> add_child(v.node, operand), p |-> v.p]
        Operand(op, r) ==
            IF Halted(r.p) THEN [node |-> add_child(create_node("NODE_UNARY_OP"), r.node),
                                 p |-> r.p]
            ELSE Valued(r.node, ValueFromToken(create_node("NODE_UNARY_OP"), op, r.p))
        Operator(p1) == Operand(previous_token(p1), parse_unary(p1))
        Sizeof(r) == [node |-> add_child(create_node("NODE_SIZEOF"), r.node),
                      p |-> consume(r.p, "TOKEN_RIGHT_PAREN")]
    IN  CASE ~Halted(p) /\ p.current_token.type \in UnaryTokens -> Operator(parser_advance(p))
          [] check(p, "TOKEN_SIZEOF") ->
                Sizeof(parse_expression(consume(parser_advance(p), "TOKEN_LEFT_PAREN")))
          [] OTHER -> parse_postfix(p)

\* the operand of level k: the function of the next level
BinaryOperand(p, k) ==
    IF k = Len(BinaryLevels) THEN parse_unary(p) ELSE parse_binary(p, k + 1)

\* the while (match(...)) loop shared by the ten levels
BinaryLoop(expr, p, k) ==
    LET Valued(right, v) == BinaryLoop(add_child(add_child(v.node, expr), right), v.p, k)
        Right(op, right) ==
            IF Halted(right.p)
            THEN [node |-> add_child(add_child(create_node("NODE_BINARY_OP"), expr),
                                     right.node),
                  p |-> right.p]
            ELSE Valued(right.node, ValueFromToken(create_node("NODE_BINARY_OP"), op, right.p))
        Matched(m) ==
            IF ~m.ok THEN [node |-> expr, p |-> p]
            ELSE Right(previous_token(m.p), BinaryOperand(m.p, k))
    IN  Matched(MatchAny(p, BinaryLevels[k]))

\* left taken through the loops of levels j, j - 1, .., k
ThroughLevels(left, j, k) ==
    IF j < k \/ Halted(left.p) THEN left
    ELSE ThroughLevels(BinaryLoop(left.node, left.p, j), j - 1, k)

\* parse_logical_or (k = 1) .. parse_multiplicative (k = 10).  The function
\* of a level takes its left operand from the function of the next level and
\* then runs its own loop, so what it returns is what parse_unary returns
\* taken through the loops of the levels 10, 9, .., k.
parse_binary(p, k) == ThroughLevels(parse_unary(p), Len(BinaryLevels), k)

parse_logical_or(p) == parse_binary(p, 1)

parse_ternary(p) ==
    LET Else(condition, then_expr, else_expr) ==
            [node |-> add_child(add_child(add_child(create_node("NODE_TERNARY"), condition),
                                          then_expr), else_expr.node),
             p |-> else_expr.p]
        Then(condition, then_expr) ==
            Else(condition, then_expr.node,
                 parse_ternary(consume(then_expr.p, "TOKEN_COLON")))
        Question(r, m) == IF ~m.ok THEN r ELSE Then(r.node, parse_expression(m.p))
        Condition(r) == IF Halted(r.p) THEN r ELSE Question(r, match(r.p, "TOKEN_QUESTION"))
    IN  Condition(parse_logical_or(p))

parse_assignment(p) ==
    LET Valued(left, right, v) ==
            [node |-> add_child(add_child(v.node, left), right), p |-> v.p]
        Right(left, op, right) ==
            IF Halted(right.p)
            THEN [node |-> add_child(add_child(create_node("NODE_ASSIGNMENT"), left),
                                     right.node),
                  p |-> right.p]
            ELSE Valued(left, right.node,
                        ValueFromToken(create_node("NODE_ASSIGNMENT"), op, right.p))
        Matched(r, m) ==
            IF ~m.ok THEN r ELSE Right(r.node, previous_token(m.p), parse_assignment(m.p))
        Left(r) == IF Halted(r.p) THEN r ELSE Matched(r, MatchAny(r.p, AssignmentTokens))
    IN  Left(parse_ternary(p))

RECURSIVE parse_block(_), BlockLoop(_, _),
          parse_if_statement(_), parse_while_statement(_), parse_for_statement(_),
          parse_do_while_statement(_), parse_switch_statement(_),
          SwitchLoop(_, _), CaseBodyLoop(_, _), DefaultBodyLoop(_, _),
          parse_function_declaration(_),
          parse_struct_declaration(_), parse_union_declaration(_),
          FieldLoop(_, _), parse_export_statement(_)

\* while (match(TOKEN_MULTIPLY)) wrapping the type in POINTER_TYPE nodes
RECURSIVE PointerLoop(_, _)
PointerLoop(type_node, p) ==
    LET Star(m) ==
            IF ~m.ok THEN [node |-> type_node, p |-> p]
            ELSE PointerLoop(add_child(create_node("NODE_POINTER_TYPE"), type_node), m.p)
    IN  Star(match(p, "TOKEN_MULTIPLY"))

parse_type_specifier(p) ==
    LET \* struct Name, enum Name, union Name, or the keyword alone
        Tagged(keyword, p1) ==
            IF check(p1, "TOKEN_IDENTIFIER")
            THEN PointerLoop(WithValue(create_node("NODE_TYPE"),
                                       keyword \o <<" ">> \o p1.current_token.value),
                             parser_advance(p1))
            ELSE PointerLoop(WithValue(create_node("NODE_TYPE"), keyword), p1)
    IN  CASE ~Halted(p)
             /\ p.current_token.type \in PrimitiveTypeTokens \cup {"TOKEN_IDENTIFIER"} ->
                PointerLoop(WithValue(create_node("NODE_TYPE"), p.current_token.value),
                            parser_advance(p))
          [] ~Halted(p)
             /\ p.current_token.type \in {"TOKEN_STRUCT", "TOKEN_ENUM", "TOKEN_UNION"} ->
                Tagged(p.current_token.value, parser_advance(p))
          [] OTHER -> [node |-> NullNode, p |-> report_error(p)]

parse_expression_statement(p) ==
    LET Statement(r) ==
            [node |-> add_child(create_node("NODE_EXPRESSION_STATEMENT"), r.node),
             p |-> consume(r.p, "TOKEN_SEMICOLON")]
    IN  Statement(parse_expression(p))

parse_variable_declaration(p) ==
    LET Declared(decl, init) ==
            [node |-> add_child(decl, init.node), p |-> consume(init.p, "TOKEN_SEMICOLON")]
        Initializer(decl, m) ==
            IF m.ok THEN Declared(decl, parse_expression(m.p))
            ELSE Declared(decl, [node |-> NullNode, p |-> m.p])
        Type(t) ==
            IF t.node = NullNode THEN [node |-> NullNode, p |-> t.p]
            ELSE IF ~check(t.p, "TOKEN_IDENTIFIER")
            THEN [node |-> NullNode, p |-> report_error(t.p)]
            ELSE Initializer(add_child(WithValue(create_node("NODE_VARIABLE_DECLARATION"),
                                                 t.p.current_token.value),
                                       t.node),
                             match(parser_advance(t.p), "TOKEN_ASSIGN"))
    IN  Type(parse_type(p))

parse_return_statement(p) ==
    LET Return(r) ==
            [node |-> add_child(create_node("NODE_RETURN_STATEMENT"), r.node),
             p |-> consume(r.p, "TOKEN_SEMICOLON")]
    IN  IF ~check(p, "TOKEN_SEMICOLON") THEN Return(parse_expression(p))
        ELSE Return([node |-> NullNode, p |-> p])

parse_break_statement(p) ==
    [node |-> create_node("NODE_BREAK_STATEMENT"), p |-> consume(p, "TOKEN_SEMICOLON")]

parse_continue_statement(p) ==
    [node |-> create_node("NODE_CONTINUE_STATEMENT"), p |-> consume(p, "TOKEN_SEMICOLON")]

\* the statement a keyword starts; parse_statement has matched the keyword
KeywordStatement(type, p) ==
    CASE type = "TOKEN_IF" -> parse_if_statement(p)
      [] type = "TOKEN_WHILE" -> parse_while_statement(p)
      [] type = "TOKEN_FOR" -> parse_for_statement(p)
      [] type = "TOKEN_DO" -> parse_do_while_statement(p)
      [] type = "TOKEN_SWITCH" -> parse_switch_statement(p)
      [] type = "TOKEN_RETURN" -> parse_return_statement(p)
      [] type = "TOKEN_BREAK" -> parse_break_statement(p)
      [] type = "TOKEN_CONTINUE" -> parse_continue_statement(p)
      [] type = "TOKEN_LEFT_BRACE" -> parse_block(p)

StatementTokens ==
    {"TOKEN_IF", "TOKEN_WHILE", "TOKEN_FOR", "TOKEN_DO", "TOKEN_SWITCH", "TOKEN_RETURN",
     "TOKEN_BREAK", "TOKEN_CONTINUE", "TOKEN_LEFT_BRACE"}

\* if (match(TOKEN_IF)) return parse_if_statement(parser); ...
parse_statement_body(p) ==
    IF ~Halted(p) /\ p.current_token.type \in StatementTokens
    THEN KeywordStatement(p.current_token.type, parser_advance(p))
    ELSE parse_expression_statement(p)

\* while (!check(TOKEN_RIGHT_BRACE) && !is_at_end()) of parse_block
BlockLoop(block, p) ==
    LET Statement(r) ==
            IF Halted(r.p) THEN [node |-> add_child(block, r.node), p |-> r.p]
            ELSE BlockLoop(add_child(block, r.node), EndOfIteration(p, r.p))
    IN  IF check(p, "TOKEN_RIGHT_BRACE") \/ is_at_end(p) THEN [node |-> block, p |-> p]
        ELSE Statement(parse_statement(p))

parse_block(p) ==
    LET Close(r) == [node |-> r.node, p |-> consume(r.p, "TOKEN_RIGHT_BRACE")]
    IN  Close(BlockLoop(create_node("NODE_BLOCK"), p))

parse_if_statement(p) ==
    LET Otherwise(if_node, else_stmt) ==
            [node |-> add_child(if_node, else_stmt.node), p |-> else_stmt.p]
        Else(if_node, m) ==
            IF ~m.ok THEN [node |-> if_node, p |-> m.p]
            ELSE Otherwise(if_node, parse_statement(m.p))
        Branch(if_node, q) ==
            IF Halted(q) THEN [node |-> if_node, p |-> q]
            ELSE Else(if_node, match(q, "TOKEN_ELSE"))
        Then(condition, then_stmt) ==
            Branch(add_child(add_child(create_node("NODE_IF_STATEMENT"), condition),
                             then_stmt.node),
                   then_stmt.p)
        Condition(condition) ==
            Then(condition.node, parse_statement(consume(condition.p, "TOKEN_RIGHT_PAREN")))
    IN  Condition(parse_expression(consume(p, "TOKEN_LEFT_PAREN")))

parse_while_statement(p) ==
    LET Body(condition, body) ==
            [node |-> add_child(add_child(create_node("NODE_WHILE_STATEMENT"), condition),
                                body.node),
             p |-> body.p]
        Condition(condition) ==
            Body(condition.node, parse_statement(consume(condition.p, "TOKEN_RIGHT_PAREN")))
    IN  Condition(parse_expression(consume(p, "TOKEN_LEFT_PAREN")))

\* add_child(for_node, NULL) for an omitted clause adds nothing
parse_for_statement(p) ==
    LET Body(for_node, body) == [node |-> add_child(for_node, body.node), p |-> body.p]
        Increment(for_node, step) ==
            Body(add_child(for_node, step.node),
                 parse_statement(consume(step.p, "TOKEN_RIGHT_PAREN")))
        Step(for_node, p2) ==
            IF ~check(p2, "TOKEN_RIGHT_PAREN")
            THEN Increment(for_node, parse_expression(p2))
            ELSE Increment(for_node, [node |-> NullNode, p |-> p2])
        Condition(for_node, cond) ==
            Step(add_child(for_node, cond.node), consume(cond.p, "TOKEN_SEMICOLON"))
        Init(init) ==
            IF ~check(init.p, "TOKEN_SEMICOLON")
            THEN Condition(add_child(create_node("NODE_FOR_STATEMENT"), init.node),
                           parse_expression(init.p))
            ELSE Condition(add_child(create_node("NODE_FOR_STATEMENT"), init.node),
                           [node |-> NullNode, p |-> init.p])
        Open(p1) ==
            IF ~check(p1, "TOKEN_SEMICOLON")
            THEN IF is_type_token(p1.current_token.type)
                 THEN Init(parse_variable_declaration(p1))
                 ELSE Init(parse_expression_statement(p1))
            ELSE Init([node |-> NullNode, p |-> consume(p1, "TOKEN_SEMICOLON")])
    IN  Open(consume(p, "TOKEN_LEFT_PAREN"))

parse_do_while_statement(p) ==
    LET Condition(do_while, condition) ==
            [node |-> add_child(do_while, condition.node),
             p |-> consume(consume(condition.p, "TOKEN_RIGHT_PAREN"), "TOKEN_SEMICOLON")]
        Body(body) ==
            Condition(add_child(create_node("NODE_DO_WHILE_STATEMENT"), body.node),
                      parse_expression(consume(consume(body.p, "TOKEN_WHILE"),
                                               "TOKEN_LEFT_PAREN")))
    IN  Body(parse_statement(p))

\* the statements of a case, up to the next case, default, } or a break
CaseBodyLoop(case_node, p) ==
    LET Statement(r) ==
            IF Halted(r.p) \/ r.node.type = "NODE_BREAK_STATEMENT"
            THEN [node |-> add_child(case_node, r.node), p |-> EndOfIteration(p, r.p)]
            ELSE CaseBodyLoop(add_child(case_node, r.node), EndOfIteration(p, r.p))
    IN  IF check(p, "TOKEN_CASE") \/ check(p, "TOKEN_DEFAULT")
             \/ check(p, "TOKEN_RIGHT_BRACE") \/ is_at_end(p)
        THEN [node |-> case_node, p |-> p]
        ELSE Statement(parse_statement(p))

\* the statements of default, up to the next case, } or a break
DefaultBodyLoop(default_node, p) ==
    LET Statement(r) ==
            IF Halted(r.p) \/ r.node.type = "NODE_BREAK_STATEMENT"
            THEN [node |-> add_child(default_node, r.node), p |-> EndOfIteration(p, r.p)]
            ELSE DefaultBodyLoop(add_child(default_node, r.node), EndOfIteration(p, r.p))
    IN  IF check(p, "TOKEN_CASE") \/ check(p, "TOKEN_RIGHT_BRACE") \/ is_at_end(p)
        THEN [node |-> default_node, p |-> p]
        ELSE Statement(parse_statement(p))

\* while (!check(TOKEN_RIGHT_BRACE) && !is_at_end()) of parse_switch_statement
SwitchLoop(switch_node, p) ==
    LET Body(body) ==
            IF Halted(body.p) THEN [node |-> add_child(switch_node, body.node), p |-> body.p]
            ELSE SwitchLoop(add_child(switch_node, body.node), body.p)
        Case(case_value) ==
            Body(CaseBodyLoop(add_child(create_node("NODE_CASE_STATEMENT"), case_value.node),
                              consume(case_value.p, "TOKEN_COLON")))
    IN  CASE check(p, "TOKEN_RIGHT_BRACE") \/ is_at_end(p) -> [node |-> switch_node, p |-> p]
          [] check(p, "TOKEN_CASE") -> Case(parse_expression(parser_advance(p)))
          [] check(p, "TOKEN_DEFAULT") ->
                Body(DefaultBodyLoop(create_node("NODE_DEFAULT_STATEMENT"),
                                     consume(parser_advance(p), "TOKEN_COLON")))
          [] OTHER -> [node |-> switch_node, p |-> report_error(p)]

parse_switch_statement(p) ==
    LET Close(r) == [node |-> r.node, p |-> consume(r.p, "TOKEN_RIGHT_BRACE")]
        Expression(expr) ==
            Close(SwitchLoop(add_child(create_node("NODE_SWITCH_STATEMENT"), expr.node),
                             consume(consume(expr.p, "TOKEN_RIGHT_PAREN"),
                                     "TOKEN_LEFT_BRACE")))
    IN  Expression(parse_expression(consume(p, "TOKEN_LEFT_PAREN")))

\* do { ... } while (match(TOKEN_COMMA)) of parse_parameter_list
RECURSIVE ParameterLoop(_, _)
ParameterLoop(param_list, p) ==
    LET Comma(list, m) ==
            IF m.ok THEN ParameterLoop(list, m.p) ELSE [node |-> list, p |-> m.p]
        Parameter(param_type, param_name, p1) ==
            Comma(add_child(param_list,
                            add_child(WithValue(create_node("NODE_PARAMETER"), param_name),
                                      param_type)),
                  match(p1, "TOKEN_COMMA"))
        Type(t) ==
            IF t.node = NullNode THEN [node |-> param_list, p |-> t.p]
            ELSE IF check(t.p, "TOKEN_IDENTIFIER")
            THEN Parameter(t.node, t.p.current_token.value, parser_advance(t.p))
            ELSE Parameter(t.node, NullStr, t.p)
    IN  Type(parse_type(p))

parse_parameter_list(p) ==
    IF check(p, "TOKEN_RIGHT_PAREN") THEN [node |-> create_node("NODE_PARAMETER_LIST"), p |-> p]
    ELSE ParameterLoop(create_node("NODE_PARAMETER_LIST"), p)

parse_function_declaration(p) ==
    LET Body(function, body) == [node |-> add_child(function, body.node), p |-> body.p]
        Parameters(function, params) ==
            Body(add_child(function, params.node),
                 parse_block(consume(params.p, "TOKEN_RIGHT_PAREN")))
        ReturnType(return_type) ==
            IF return_type.node = NullNode THEN [node |-> NullNode, p |-> return_type.p]
            ELSE IF ~check(return_type.p, "TOKEN_IDENTIFIER")
            THEN [node |-> NullNode, p |-> report_error(return_type.p)]
            ELSE Parameters(add_child(WithValue(create_node("NODE_FUNCTION"),
                                                return_type.p.current_token.value),
                                      return_type.node),
                            parse_parameter_list(consume(parser_advance(return_type.p),
                                                         "TOKEN_LEFT_PAREN")))
    IN  ReturnType(parse_type(p))

\* the field loop of parse_struct_declaration and parse_union_declaration
FieldLoop(node, p) ==
    LET Field(field) ==
            IF Halted(field.p) THEN [node |-> add_child(node, field.node), p |-> field.p]
            ELSE FieldLoop(add_child(node, field.node), EndOfIteration(p, field.p))
    IN  IF check(p, "TOKEN_RIGHT_BRACE") \/ is_at_end(p) THEN [node |-> node, p |-> p]
        ELSE Field(parse_variable_declaration(p))

\* parse_struct_declaration (NODE_STRUCT) and parse_union_declaration
\* (NODE_UNION) differ in the kind of the node only
ParseAggregate(p, kind) ==
    LET Close(r) == [node |-> r.node, p |-> consume(r.p, "TOKEN_RIGHT_BRACE")]
    IN  IF ~check(p, "TOKEN_IDENTIFIER") THEN [node |-> NullNode, p |-> report_error(p)]
        ELSE Close(FieldLoop(WithValue(create_node(kind), p.current_token.value),
                             consume(parser_advance(p), "TOKEN_LEFT_BRACE")))

parse_struct_declaration(p) == ParseAggregate(p, "NODE_STRUCT")

parse_union_declaration(p) == ParseAggregate(p, "NODE_UNION")

\* the loop over the values of an enum; it ends at the first missing comma
RECURSIVE EnumLoop(_, _)
EnumLoop(enum_node, p) ==
    LET Comma(list, c) == IF c.ok THEN EnumLoop(list, c.p) ELSE [node |-> list, p |-> c.p]
        Value(value_name, value_expr) ==
            Comma(add_child(enum_node,
                            add_child(WithValue(create_node("NODE_ENUM_VALUE"), value_name),
                                      value_expr.node)),
                  match(value_expr.p, "TOKEN_COMMA"))
        Assign(value_name, m) ==
            IF m.ok THEN Value(value_name, parse_expression(m.p))
            ELSE Value(value_name, [node |-> NullNode, p |-> m.p])
    IN  IF check(p, "TOKEN_RIGHT_BRACE") \/ is_at_end(p) THEN [node |-> enum_node, p |-> p]
        ELSE IF ~check(p, "TOKEN_IDENTIFIER") THEN [node |-> enum_node, p |-> report_error(p)]
        ELSE Assign(p.current_token.value, match(parser_advance(p), "TOKEN_ASSIGN"))

parse_enum_declaration(p) ==
    LET Close(r) == [node |-> r.node, p |-> consume(r.p, "TOKEN_RIGHT_BRACE")]
    IN  IF ~check(p, "TOKEN_IDENTIFIER") THEN [node |-> NullNode, p |-> report_error(p)]
        ELSE Close(EnumLoop(WithValue(create_node("NODE_ENUM"), p.current_token.value),
                            consume(parser_advance(p), "TOKEN_LEFT_BRACE")))

parse_import_statement(p) ==
    IF ~check(p, "TOKEN_STRING") /\ ~check(p, "TOKEN_IDENTIFIER")
    THEN [node |-> NullNode, p |-> report_error(p)]
    ELSE [node |-> WithValue(create_node("NODE_IMPORT"), p.current_token.value),
          p |-> consume(parser_advance(p), "TOKEN_SEMICOLON")]

parse_module_declaration(p) ==
    IF ~check(p, "TOKEN_IDENTIFIER") THEN [node |-> NullNode, p |-> report_error(p)]
    ELSE [node |-> WithValue(create_node("NODE_MODULE"), p.current_token.value),
          p |-> consume(parser_advance(p), "TOKEN_SEMICOLON")]

parse_export_statement(p) ==
    LET Exported(exported_item) ==
            [node |-> add_child(create_node("NODE_EXPORT"), exported_item.node),
             p |-> exported_item.p]
    IN  Exported(parse_declaration(p))

\* a restore that also put back the error count and the panic flag
Restore_errors_too(p, saved) ==
    [p EXCEPT !.lexer = saved.lexer, !.current_token = saved.current_token,
              !.error_count = saved.error_count, !.panic_mode = saved.panic_mode]

\* *parser->lexer = saved_lexer; parser->current_token = saved_token
Restore(p, saved) ==
    [p EXCEPT !.lexer = saved.lexer, !.current_token = saved.current_token]

\* the look-ahead of parse_declaration: a type, an identifier and a peek at
\* the token behind them; the parser it returns is the one the look-ahead
\* leaves before the restore
LookAhead(p) ==
    LET Peek(p1) == [is_function |-> check(p1, "TOKEN_LEFT_PAREN"), p |-> p1]
        Type(t) ==
            IF check(t.p, "TOKEN_IDENTIFIER") THEN Peek(parser_advance(t.p))
            ELSE [is_function |-> FALSE, p |-> t.p]
    IN  Type(parse_type(p))

\* the declaration a keyword starts; parse_declaration has matched the keyword
KeywordDeclaration(type, p) ==
    CASE type = "TOKEN_MODULE" -> parse_module_declaration(p)
      [] type = "TOKEN_IMPORT" -> parse_import_statement(p)
      [] type = "TOKEN_EXPORT" -> parse_export_statement(p)
      [] type = "TOKEN_STRUCT" -> parse_struct_declaration(p)
      [] type = "TOKEN_ENUM" -> parse_enum_declaration(p)
      [] type = "TOKEN_UNION" -> parse_union_declaration(p)

DeclarationTokens ==
    {"TOKEN_MODULE", "TOKEN_IMPORT", "TOKEN_EXPORT", "TOKEN_STRUCT", "TOKEN_ENUM",
     "TOKEN_UNION"}

parse_declaration_body(p) ==
    LET Decided(is_function, restored) ==
            IF is_function
            THEN parse_function_declaration(restored)
            ELSE parse_variable_declaration(restored)
        Ahead(ahead) == Decided(ahead.is_function, Restore(ahead.p, p))
    IN  CASE ~Halted(p) /\ p.current_token.type \in DeclarationTokens ->
                KeywordDeclaration(p.current_token.type, parser_advance(p))
          [] ~Halted(p) /\ p.current_token.type \notin DeclarationTokens
                        /\ is_type_token(p.current_token.type) -> Ahead(LookAhead(p))
          [] OTHER -> parse_statement(p)

Call(f, p) ==
    CASE f = "parser_advance" -> parser_advance_body(p)
      [] f = "parse_expression" -> parse_assignment(p)
      [] f = "parse_type" -> parse_type_specifier(p)
      [] f = "parse_statement" -> parse_statement_body(p)
      [] f = "parse_declaration" -> parse_declaration_body(p)

SynchronizeTokens ==
    {"TOKEN_STRUCT", "TOKEN_ENUM", "TOKEN_UNION", "TOKEN_FOR", "TOKEN_IF",
     "TOKEN_WHILE", "TOKEN_RETURN"}

\* the while loop of synchronize
RECURSIVE SynchronizeLoop(_)
SynchronizeLoop(p) ==
    IF is_at_end(p) THEN p
    ELSE IF previous_token(p).type = "TOKEN_SEMICOLON" THEN p
    ELSE IF p.current_token.type \in SynchronizeTokens THEN p
    ELSE SynchronizeLoop(parser_advance(p))

synchronize(p) == SynchronizeLoop([p EXCEPT !.panic_mode = FALSE])

(***************************************************************************)
(* String pool (src/src/memory.cpp).                                       *)
(*                                                                         *)
(* heap[b] is block b of the C heap: whether it is still allocated, and    *)
(* its bytes.  A char* is a block and an offset into it; block 0 is the    *)
(* null pointer.  A pool value holds the fields of struct string_pool:     *)
(* pool is the block of the buffer, string_refs the array of references    *)
(* (ref_count is its length).  A byte that was never written reads "?".    *)
(***************************************************************************)
DEFAULT_ALIGN == 8

\* 512 * 1024 and 1024 in the code, scaled down so that both arrays grow
INITIAL_STRING_POOL_SIZE == 16

INITIAL_STRING_REFS == 2

\* a rounding that leaves the size as it is
ALIGN_UP_exact(n, align) == n

ALIGN_UP(n, align) == ((n + align - 1) \div align) * align

NullPtr == [block |-> 0, offset |-> 0]

\* realloc(block, size): fails, or resizes the block where it is, or
\* allocates a new block, copies the bytes and frees the old one
realloc(h, block, size, outcome) ==
    LET Resized == [i \in 1..size |-> IF i <= Len(h[block].bytes)
                                      THEN h[block].bytes[i] ELSE "?"]
    IN  CASE outcome = "failed" -> [ptr |-> 0, heap |-> h]
          [] outcome = "in_place" ->
                [ptr |-> block, heap |-> [h EXCEPT ![block].bytes = Resized]]
          [] outcome = "moved" ->
                [ptr |-> Len(h) + 1,
                 heap |-> Append([h EXCEPT ![block].live = FALSE],
                                 [live |-> TRUE, bytes |-> Resized])]

\* pool_string(pool, str, len) in heap h; pool_realloc and refs_realloc are
\* what the two calls of realloc do if they are reached.  Returns the
\* pointer, the pool and the heap.
pool_string(sp, h, str, len, pool_realloc, refs_realloc) ==
    LET aligned_len == ALIGN_UP(len + 1, DEFAULT_ALIGN)
        \* new_capacity = capacity * 2;
        \* while (new_capacity < used + aligned_len) new_capacity *= 2
        RECURSIVE GrowCapacity(_)
        GrowCapacity(new_capacity) ==
            IF new_capacity < sp.used + aligned_len
            THEN GrowCapacity(new_capacity * 2) ELSE new_capacity
        Null(sp1, h1) == [result |-> NullPtr, pool |-> sp1, heap |-> h1]
        \* memcpy(result, str, len); result[len] = '\0'
        Written(bytes, at) ==
            [i \in DOMAIN bytes |->
                IF i > at /\ i <= at + len THEN str[i - at]
                ELSE IF i = at + len + 1 THEN NUL
                ELSE bytes[i]]
        Store(sp1, h1) ==
            [result |-> [block |-> sp1.pool, offset |-> sp1.used],
             pool |-> [sp1 EXCEPT !.string_refs =
                                      Append(@, [block |-> sp1.pool, offset |-> sp1.used]),
                                  !.used = @ + aligned_len],
             heap |-> [h1 EXCEPT ![sp1.pool].bytes = Written(@, sp1.used)]]
        Refs(sp1, h1) ==
            IF Len(sp1.string_refs) >= sp1.ref_capacity
            THEN IF refs_realloc = "failed" THEN Null(sp1, h1)
                 ELSE Store([sp1 EXCEPT !.ref_capacity = @ * 2], h1)
            ELSE Store(sp1, h1)
        \* string_refs[i] += new_pool - pool->pool
        Moved(refs, new_pool) ==
            [i \in DOMAIN refs |-> [refs[i] EXCEPT !.block = new_pool]]
        Grown(r, new_capacity) ==
            IF r.ptr = 0 THEN Null(sp, r.heap)
            ELSE Refs([sp EXCEPT !.string_refs = Moved(@, r.ptr),
                                 !.pool = r.ptr,
                                 !.capacity = new_capacity], r.heap)
        Grow(new_capacity) == Grown(realloc(h, sp.pool, new_capacity, pool_realloc), new_capacity)
    IN  IF str = NullStr \/ len = 0 THEN Null(sp, h)
        ELSE IF sp.used + aligned_len > sp.capacity
             THEN Grow(GrowCapacity(sp.capacity * 2))
             ELSE Refs(sp, h)

(***************************************************************************)
(* AST nodes in memory (src/src/ast.cpp).  ns[a] is the struct ast_node at *)
(* address a, its children being addresses; address 0 is the null          *)
(* ast_node*.  Every function returns the memory it leaves behind.         *)
(***************************************************************************)
\* create_node_with_value(type, value); the new node is at Len(ns) + 1
create_node_with_value(ns, type, value) ==
    LET \* string_duplicate(value, strlen(value))
        string_duplicate == [i \in 1..Len(value) |-> value[i]]
    IN  Append(ns, [type |-> type,
                    value |-> IF value = NullStr THEN NullStr ELSE string_duplicate,
                    children |-> <<>>, data |-> 0])

\* add_child is insert_child at index child_count
insert_child(ns, parent, index, child) ==
    IF parent = 0 \/ child = 0 \/ index < 0 \/ index > Len(ns[parent].children) THEN ns
    ELSE [ns EXCEPT ![parent].children =
                        SubSeq(@, 1, index) \o <<child>> \o SubSeq(@, index + 1, Len(@))]

remove_child(ns, parent, index) ==
    IF parent = 0 \/ index < 0 \/ index >= Len(ns[parent].children) THEN ns
    ELSE [ns EXCEPT ![parent].children =
                        SubSeq(@, 1, index) \o SubSeq(@, index + 2, Len(@))]

\* a copy_node that copies the node and keeps pointing to its children
copy_node_shallow(ns, node) ==
    IF node = 0 THEN [node |-> 0, nodes |-> ns]
    ELSE [node |-> Len(ns) + 1, nodes |-> Append(ns, ns[node])]

RECURSIVE copy_node(_, _)
copy_node(ns, node) ==
    LET \* the for loop, from child i on, with the copy at address copy
        RECURSIVE CopyChildren(_, _, _)
        CopyChildren(ns1, copy, i) ==
            LET Added(r) ==
                    CopyChildren(insert_child(r.nodes, copy, Len(r.nodes[copy].children),
                                              r.node),
                                 copy, i + 1)
            IN  IF i > Len(ns1[node].children) THEN [node |-> copy, nodes |-> ns1]
                ELSE Added(copy_node(ns1, ns1[node].children[i]))
        \* copy->data = node->data
        WithData(ns1, copy) == [ns1 EXCEPT ![copy].data = ns[node].data]
    IN  IF node = 0 THEN [node |-> 0, nodes |-> ns]
        ELSE CopyChildren(WithData(create_node_with_value(ns, ns[node].type, ns[node].value),
                                   Len(ns) + 1),
                          Len(ns) + 1, 1)

\* the addresses of the nodes of the tree at address a
RECURSIVE Reach(_, _)
Reach(ns, a) ==
    {a} \cup UNION {Reach(ns, ns[a].children[i]) : i \in 1..Len(ns[a].children)}

(***************************************************************************)
(* Code generator (src/src/code_gen.cpp).  A generator value holds the     *)
(* fields of struct code_generator that decide the text: output, here the  *)
(* sequence of its lines, label_counter, the string table strings,         *)
(* debug_info, and the symbol table: variables, functions,                 *)
(* current_stack_offset, scope_level, in_function and current_function.    *)
(* Three more fields record what the generator did: labels has one entry   *)
(* per call of generate_label, lookups one per call of find_string_index   *)
(* and added one per call of add_variable.                                 *)
(***************************************************************************)
\* append_string(gen, str) for a str that is one line, its "\n" left out
append_string(gen, str) == [gen EXCEPT !.output = Append(@, str)]

append_instruction(gen, mnemonic, operands) ==
    append_string(gen, "    " \o mnemonic \o (IF operands # "" THEN " " \o operands ELSE ""))

append_label(gen, label) == append_string(gen, label \o ":")

\* a generate_label that numbers every label 0
generate_label_zero(gen, prefix) ==
    [label |-> prefix \o "0",
     gen |-> [gen EXCEPT !.labels = Append(@, [prefix |-> prefix, number |-> 0])]]

\* snprintf(label, 64, "%s%d", prefix, gen->label_counter++)
generate_label(gen, prefix) ==
    [label |-> prefix \o ToString(gen.label_counter),
     gen |-> [gen EXCEPT !.label_counter = @ + 1,
                         !.labels = Append(@, [prefix |-> prefix,
                                               number |-> gen.label_counter])]]

\* a find_string_index that adds the text whether the table has it or not
find_string_index_always_adds(gen, str) ==
    [index |-> Len(gen.strings),
     gen |-> [gen EXCEPT !.strings = Append(@, str),
                         !.lookups = Append(@, [str |-> str, index |-> Len(gen.strings)])]]

\* find_string_index, add_string_literal: the index, counted from 0
find_string_index(gen, str) ==
    LET Found(g1, i) ==
            [index |-> i,
             gen |-> [g1 EXCEPT !.lookups = Append(@, [str |-> str, index |-> i])]]
    IN  IF \E i \in 1..Len(gen.strings) : gen.strings[i] = str
        THEN Found(gen, (CHOOSE i \in 1..Len(gen.strings) :
                            /\ gen.strings[i] = str
                            /\ \A j \in 1..(i - 1) : gen.strings[j] # str) - 1)
        ELSE Found([gen EXCEPT !.strings = Append(@, str)], Len(gen.strings))

RECURSIVE generate_node(_, _)
generate_node(gen, node) ==
    LET child_count == Len(node.children)
        \* append_instruction for each <<mnemonic, operands>> of a list
        RECURSIVE Instructions(_, _)
        Instructions(g, list) ==
            IF list = <<>> THEN g
            ELSE Instructions(append_instruction(g, list[1][1], list[1][2]), Tail(list))
        enter_scope(g) == [g EXCEPT !.scope_level = @ + 1]
        \* while (i >= 0 && variables[i].size == scope_level) var_count--
        RECURSIVE RemoveScope(_, _)
        RemoveScope(variables, scope_level) ==
            IF variables # <<>> /\ variables[Len(variables)].size = scope_level
            THEN RemoveScope(SubSeq(variables, 1, Len(variables) - 1), scope_level)
            ELSE variables
        exit_scope(g) ==
            [g EXCEPT !.variables = RemoveScope(@, g.scope_level), !.scope_level = @ - 1]
        \* strcmp against i8 .. f64 and bool, strstr(type, "*"), default 8
        get_type_size(type) ==
            CASE type \in {<<"i", "8">>, <<"u", "8">>, <<"b", "o", "o", "l">>} -> 1
              [] type \in {<<"i", "1", "6">>, <<"u", "1", "6">>} -> 2
              [] type \in {<<"i", "3", "2">>, <<"u", "3", "2">>, <<"f", "3", "2">>} -> 4
              [] OTHER -> 8
        \* var->stack_offset = 16 + var_count * 8, or current_stack_offset -= size
        add_variable(g, name, type, size, is_param) ==
            LET Added(var, offset) ==
                    [g EXCEPT !.variables = Append(@, var),
                              !.current_stack_offset = offset,
                              !.added = Append(@, [var |-> var,
                                                   func_count |-> Len(g.functions)])]
            IN  Added([name |-> name, type |-> type, size |-> size,
                       is_parameter |-> is_param, is_global |-> g.scope_level = 0,
                       stack_offset |-> IF is_param THEN 16 + Len(g.variables) * 8
                                        ELSE g.current_stack_offset - size],
                      IF is_param THEN g.current_stack_offset
                      ELSE g.current_stack_offset - size)
        \* the index in variables of the variable find_variable returns, or 0
        find_variable(g, name) ==
            IF \E i \in 1..Len(g.variables) : g.variables[i].name = name
            THEN CHOOSE i \in 1..Len(g.variables) :
                     /\ g.variables[i].name = name
                     /\ \A j \in (i + 1)..Len(g.variables) : g.variables[j].name # name
            ELSE 0
        \* the char* s as text
        RECURSIVE Text(_)
        Text(s) == IF s = <<>> THEN "" ELSE Head(s) \o Text(Tail(s))
        append_comment(g, comment) ==
            IF g.debug_info THEN append_string(g, "    # " \o comment) ELSE g
        \* for (i = 0; i < node->child_count; i++) generate_node(gen, node->children[i])
        RECURSIVE Children(_, _)
        Children(g, i) ==
            IF i > child_count THEN g ELSE Children(generate_node(g, node.children[i]), i + 1)
        generate_function_prologue(g) ==
            append_instruction(append_instruction(append_instruction(g,
                "push", "%rbp"), "mov", "%rsp, %rbp"), "sub", "$64, %rsp")
        generate_function_epilogue(g) ==
            append_instruction(append_instruction(append_instruction(g,
                "mov", "%rbp, %rsp"), "pop", "%rbp"), "ret", "")
        \* the loop over params->children, from parameter i on
        RECURSIVE Parameters(_, _, _)
        Parameters(g, params, i) ==
            IF i > Len(params.children) THEN g
            ELSE IF params.children[i].type = "NODE_PARAMETER"
                    /\ Len(params.children[i].children) > 0
                 THEN Parameters(
                          add_variable(g,
                              IF params.children[i].value = NullStr
                              THEN <<"u", "n", "n", "a", "m", "e", "d">>
                              ELSE params.children[i].value,
                              params.children[i].children[1].value,
                              get_type_size(params.children[i].children[1].value), TRUE),
                          params, i + 1)
                 ELSE Parameters(g, params, i + 1)
        generate_function(g) ==
            LET \* add_function, in_function, current_function, enter_scope
                Entered ==
                    enter_scope([g EXCEPT !.functions = Append(@, node.value),
                                          !.in_function = TRUE,
                                          !.current_function = node.value])
                Declared(g1) ==
                    IF child_count > 2 /\ node.children[2].type = "NODE_PARAMETER_LIST"
                    THEN Parameters(g1, node.children[2], 1)
                    ELSE g1
                \* exit_scope, in_function = false, current_function = NULL
                Left(g1) == [g1 EXCEPT !.in_function = FALSE, !.current_function = NullStr]
            IN  IF child_count < 2 THEN g
                ELSE Left(exit_scope(generate_function_epilogue(
                         generate_node(
                             Declared(generate_function_prologue(
                                          append_label(Entered, Text(node.value)))),
                             node.children[child_count]))))
        generate_variable_declaration(g) ==
            LET \* if (var && gen->in_function) mov %rax, offset(%rbp)
                Stored(g1, var) ==
                    IF var # 0 /\ g1.in_function
                    THEN append_instruction(g1, "mov",
                             "%rax, " \o ToString(g1.variables[var].stack_offset) \o "(%rbp)")
                    ELSE g1
                Initialized(g1) == Stored(g1, find_variable(g1, node.value))
                Declared(g1) ==
                    IF child_count > 1 THEN Initialized(generate_node(g1, node.children[2]))
                    ELSE g1
            IN  IF child_count < 1 THEN g
                ELSE Declared(add_variable(g, node.value, node.children[1].value,
                                           get_type_size(node.children[1].value), FALSE))
        generate_if_statement(g) ==
            LET Else(else_label, end_label, g1) ==
                    append_label(IF child_count > 2
                                 THEN generate_node(append_label(g1, else_label), node.children[3])
                                 ELSE append_label(g1, else_label),
                                 end_label)
                Then(else_label, end_label, g1) ==
                    Else(else_label, end_label,
                         append_instruction(
                             generate_node(
                                 append_instruction(
                                     append_instruction(generate_node(g1, node.children[1]),
                                                        "test", "%rax, %rax"),
                                     "je", else_label),
                                 node.children[2]),
                             "jmp", end_label))
                End(else_label, r) == Then(else_label, r.label, r.gen)
                Labels(r) == End(r.label, generate_label(r.gen, "endif_"))
            IN  IF child_count < 2 THEN g ELSE Labels(generate_label(g, "else_"))
        generate_while_statement(g) ==
            LET Loop(loop_label, end_label, g1) ==
                    append_label(
                        append_instruction(
                            generate_node(
                                append_instruction(
                                    append_instruction(
                                        generate_node(append_label(g1, loop_label),
                                                      node.children[1]),
                                        "test", "%rax, %rax"),
                                    "je", end_label),
                                node.children[2]),
                            "jmp", loop_label),
                        end_label)
                End(loop_label, r) == Loop(loop_label, r.label, r.gen)
                Labels(r) == End(r.label, generate_label(r.gen, "endloop_"))
            IN  IF child_count < 2 THEN g ELSE Labels(generate_label(g, "loop_"))
        generate_for_statement(g) ==
            LET \* init, condition and update are children[0..2], never null
                Body(g1) == IF child_count > 3 THEN generate_node(g1, node.children[4]) ELSE g1
                For(loop_label, condition_label, end_label, g1) ==
                    append_label(
                        append_instruction(
                            append_instruction(
                                generate_node(
                                    append_label(
                                        generate_node(
                                            Body(append_label(
                                                     append_instruction(
                                                         generate_node(g1, node.children[1]),
                                                         "jmp", condition_label),
                                                     loop_label)),
                                            node.children[3]),
                                        condition_label),
                                    node.children[2]),
                                "test", "%rax, %rax"),
                            "jne", loop_label),
                        end_label)
                End(loop_label, condition_label, r) ==
                    For(loop_label, condition_label, r.label, r.gen)
                Condition(loop_label, r) ==
                    End(loop_label, r.label, generate_label(r.gen, "for_end_"))
                Labels(r) == Condition(r.label, generate_label(r.gen, "for_condition_"))
            IN  IF child_count < 3 THEN g ELSE Labels(generate_label(g, "for_loop_"))
        generate_return_statement(g) ==
            generate_function_epilogue(IF child_count > 0 THEN generate_node(g, node.children[1])
                                       ELSE append_instruction(g, "mov", "$0, %rax"))
        generate_string_literal(g) ==
            LET Found(r) ==
                    append_instruction(r.gen, "mov", "$str" \o ToString(r.index) \o ", %rax")
            IN  Found(find_string_index(g, node.value))
        \* the operation of generate_binary_op, after both operands
        BinaryOperation(op) ==
            LET Compare(set) ==
                    << <<"cmp", "%rbx, %rax">>, <<set, "%al">>, <<"movzb", "%al, %rax">> >>
            IN  CASE op = <<"+">> -> << <<"add", "%rbx, %rax">> >>
                  [] op = <<"-">> -> << <<"sub", "%rbx, %rax">> >>
                  [] op = <<"*">> -> << <<"imul", "%rbx, %rax">> >>
                  [] op = <<"/">> -> << <<"cqo", "">>, <<"idiv", "%rbx">> >>
                  [] op = <<"%">> ->
                        << <<"cqo", "">>, <<"idiv", "%rbx">>, <<"mov", "%rdx, %rax">> >>
                  [] op = <<"=", "=">> -> Compare("sete")
                  [] op = <<"!", "=">> -> Compare("setne")
                  [] op = <<"<">> -> Compare("setl")
                  [] op = <<">">> -> Compare("setg")
                  [] op = <<"<", "=">> -> Compare("setle")
                  [] op = <<">", "=">> -> Compare("setge")
                  [] OTHER -> <<>>
        generate_binary_op(g) ==
            IF child_count # 2 THEN g
            ELSE Instructions(
                     generate_node(
                         append_instruction(generate_node(g, node.children[1]),
                                            "push", "%rax"),
                         node.children[2]),
                     << <<"mov", "%rax, %rbx">>, <<"pop", "%rax">> >>
                         \o BinaryOperation(node.value))
        generate_unary_op(g) ==
            LET \* lea $offset, %rax; add %rbp, %rax  if (var && gen->in_function)
                Address(var) ==
                    IF var # 0 /\ g.in_function
                    THEN Instructions(g,
                             << <<"lea", "$" \o ToString(g.variables[var].stack_offset)
                                             \o ", %rax">>,
                                <<"add", "%rbp, %rax">> >>)
                    ELSE g
                Operation(op) ==
                    CASE op = <<"-">> -> << <<"neg", "%rax">> >>
                      [] op = <<"!">> -> << <<"test", "%rax, %rax">>, <<"sete", "%al">>,
                                            <<"movzb", "%al, %rax">> >>
                      [] op = <<"~">> -> << <<"not", "%rax">> >>
                      [] op = <<"*">> -> << <<"mov", "(%rax), %rax">> >>
            IN  CASE child_count # 1 -> g
                  [] child_count = 1 /\ node.value = <<"&">> ->
                        IF node.children[1].type = "NODE_IDENTIFIER"
                        THEN Address(find_variable(g, node.children[1].value))
                        ELSE g
                  [] child_count = 1 /\ node.value \in {<<"-">>, <<"!">>, <<"~">>, <<"*">>} ->
                        Instructions(generate_node(g, node.children[1]),
                                     Operation(node.value))
                  [] OTHER -> g
        generate_assignment(g) ==
            LET \* the store into the target, if it is a variable in a function
                Stored(g1, var) ==
                    IF var # 0 /\ g1.in_function
                    THEN append_instruction(g1, "mov",
                             "%rax, " \o ToString(g1.variables[var].stack_offset) \o "(%rbp)")
                    ELSE g1
                Store(g1) ==
                    IF node.children[1].type = "NODE_IDENTIFIER"
                    THEN Stored(g1, find_variable(g1, node.children[1].value))
                    ELSE g1
                Compound(g1, mnemonic) ==
                    Instructions(
                        generate_node(append_instruction(g1, "push", "%rax"),
                                      node.children[1]),
                        << <<"pop", "%rbx">>, <<mnemonic, "%rbx, %rax">> >>)
                Operated(g1) ==
                    CASE node.value = <<"+", "=">> -> Compound(g1, "add")
                      [] node.value = <<"-", "=">> -> Compound(g1, "sub")
                      [] node.value = <<"*", "=">> -> Compound(g1, "imul")
                      [] OTHER -> g1
            IN  IF child_count # 2 THEN g
                ELSE Store(Operated(generate_node(g, node.children[2])))
        \* for (i = child_count - 1; i >= 0; i--) generate_node; push %rax
        RECURSIVE Arguments(_, _)
        Arguments(g, i) ==
            IF i < 1 THEN g
            ELSE Arguments(append_instruction(generate_node(g, node.children[i]),
                                              "push", "%rax"), i - 1)
        generate_printf(g) ==
            LET \* snprintf(num_str, 32, "%lld", arg->data.literal.int_value), which
                \* no parser sets: the 0 of the memset in create_node
                Number(r) ==
                    Instructions(r.gen,
                        << <<"mov", "$str" \o ToString(r.index) \o ", %rsi">>,
                           <<"mov", "$1, %rdx">> >>)
                Formatted(g1) ==
                    IF node.children[1].type = "NODE_STRING_LITERAL"
                       /\ node.children[1].value = <<"%", "d">>
                    THEN Number(find_string_index(generate_node(g1, node.children[2]),
                                                  <<"0">>))
                    ELSE g1
                Length(g1) ==
                    IF node.children[1].type = "NODE_STRING_LITERAL"
                    THEN append_instruction(g1, "mov",
                             "$" \o ToString(Len(node.children[1].value)) \o ", %rdx")
                    ELSE g1
                Plain(g1) ==
                    Length(append_instruction(generate_node(g1, node.children[1]),
                                              "mov", "%rax, %rsi"))
                Write(g1) ==
                    Instructions(g1, << <<"mov", "$1, %rdi">>, <<"mov", "$1, %rax">>,
                                        <<"syscall", "">> >>)
            IN  CASE child_count = 0 -> g
                  [] child_count = 1 -> Write(Plain(g))
                  [] OTHER -> Write(Formatted(g))
        generate_function_call(g) ==
            LET Cleaned(g1) ==
                    IF child_count > 0
                    THEN append_instruction(g1, "add",
                             "$" \o ToString(child_count * 8) \o ", %rsp")
                    ELSE g1
            IN  IF node.value = <<"p", "r", "i", "n", "t", "f">> THEN generate_printf(g)
                ELSE Cleaned(append_instruction(Arguments(g, child_count),
                                                "call", Text(node.value)))
        generate_array_access(g) ==
            IF child_count # 2 THEN g
            ELSE Instructions(
                     generate_node(
                         append_instruction(generate_node(g, node.children[1]),
                                            "push", "%rax"),
                         node.children[2]),
                     << <<"imul", "$8, %rax">>, <<"pop", "%rbx">>, <<"add", "%rbx, %rax">>,
                        <<"mov", "(%rax), %rax">> >>)
        generate_member_access(g) ==
            IF child_count # 2 THEN g
            ELSE Instructions(
                     generate_node(g, node.children[1]),
                     CASE node.value = <<".">> -> << <<"add", "$0, %rax">> >>
                       [] node.value = <<"-", ">">> ->
                             << <<"mov", "(%rax), %rax">>, <<"add", "$0, %rax">> >>
                       [] OTHER -> <<>>)
        generate_ternary(g) ==
            LET Branches(false_label, end_label, g1) ==
                    append_label(
                        generate_node(
                            append_label(
                                append_instruction(
                                    generate_node(
                                        Instructions(
                                            generate_node(g1, node.children[1]),
                                            << <<"test", "%rax, %rax">>,
                                               <<"je", false_label>> >>),
                                        node.children[2]),
                                    "jmp", end_label),
                                false_label),
                            node.children[3]),
                        end_label)
                End(false_label, r) == Branches(false_label, r.label, r.gen)
                Labels(r) == End(r.label, generate_label(r.gen, "ternary_end_"))
            IN  IF child_count # 3 THEN g
                ELSE Labels(generate_label(g, "ternary_false_"))
        \* (int)node->value[0] for the characters the programs below use
        generate_char_literal(g) ==
            append_instruction(g, "mov",
                CASE node.value = <<>> -> "$0, %rax"
                  [] node.value = <<"a">> -> "$97, %rax")
        generate_identifier(g) ==
            LET Loaded(var) ==
                    IF var # 0 /\ g.in_function
                    THEN append_instruction(g, "mov",
                             ToString(g.variables[var].stack_offset) \o "(%rbp), %rax")
                    ELSE g
            IN  Loaded(find_variable(g, node.value))
        Lower(g) ==
            CASE node.type = "NODE_PROGRAM" -> Children(append_comment(g, "Program start"), 1)
              [] node.type = "NODE_FUNCTION" -> generate_function(g)
              [] node.type = "NODE_VARIABLE_DECLARATION" -> generate_variable_declaration(g)
              [] node.type = "NODE_BLOCK" -> exit_scope(Children(enter_scope(g), 1))
              [] node.type = "NODE_IF_STATEMENT" -> generate_if_statement(g)
              [] node.type = "NODE_WHILE_STATEMENT" -> generate_while_statement(g)
              [] node.type = "NODE_FOR_STATEMENT" -> generate_for_statement(g)
              [] node.type = "NODE_RETURN_STATEMENT" -> generate_return_statement(g)
              [] node.type = "NODE_EXPRESSION_STATEMENT" ->
                    IF child_count > 0 THEN generate_node(g, node.children[1]) ELSE g
              [] node.type = "NODE_ASSIGNMENT" -> generate_assignment(g)
              [] node.type = "NODE_BINARY_OP" -> generate_binary_op(g)
              [] node.type = "NODE_UNARY_OP" -> generate_unary_op(g)
              [] node.type = "NODE_FUNCTION_CALL" -> generate_function_call(g)
              [] node.type = "NODE_ARRAY_ACCESS" -> generate_array_access(g)
              [] node.type = "NODE_MEMBER_ACCESS" -> generate_member_access(g)
              [] node.type = "NODE_TERNARY" -> generate_ternary(g)
              [] node.type \in {"NODE_NUMBER_LITERAL", "NODE_FLOAT_LITERAL"} ->
                    append_instruction(g, "mov", "$" \o Text(node.value) \o ", %rax")
              [] node.type = "NODE_STRING_LITERAL" -> generate_string_literal(g)
              [] node.type = "NODE_CHAR_LITERAL" -> generate_char_literal(g)
              [] node.type = "NODE_BOOL_LITERAL" ->
                    append_instruction(g, "mov", IF node.value = <<"t", "r", "u", "e">>
                                                 THEN "$1, %rax" ELSE "$0, %rax")
              [] node.type = "NODE_IDENTIFIER" -> generate_identifier(g)
              \* default: the switch has no case for any other kind
              [] OTHER -> append_comment(g, "Unsupported node type")
    IN  \* if (!gen || !node) return; append_comment(gen, "Node: %s")
        CASE node = NullNode -> gen
          [] node # NullNode /\ gen.debug_info ->
                Lower(append_string(gen, "    # Node: " \o node.type))
          [] OTHER -> Lower(gen)

\* a generate that writes the header and the entry before the program
generate_header_first(gen, ast) ==
    generate_node(append_string(append_string(append_string(append_string(gen,
                      ".global _start"), ".section .data"), ".section .text"), "_start:"),
                  ast)

generate(gen, ast) ==
    LET \* str%d: .ascii "%s" for every string of the table
        RECURSIVE Text(_)
        Text(s) == IF s = <<>> THEN "" ELSE Head(s) \o Text(Tail(s))
        RECURSIVE Data(_, _)
        Data(g, i) ==
            IF i > Len(g.strings) THEN g
            ELSE Data(append_string(g, "str" \o ToString(i - 1) \o ": .ascii \""
                                           \o Text(g.strings[i]) \o "\""), i + 1)
        \* generate_syscall(gen, 60)
        generate_syscall(g) ==
            append_instruction(append_instruction(g, "mov", "$60, %rax"), "syscall", "")
        Entry(g) ==
            generate_syscall(append_instruction(append_instruction(append_string(g,
                "_start:"), "call", "main"), "mov", "%rax, %rdi"))
        Final(g) ==
            Entry(append_string(Data(append_string(append_string(g,
                ".global _start"), ".section .data"), 1), ".section .text"))
    IN  Final(generate_node(gen, ast))

(***************************************************************************)
(* The scanner driven on its own: next_token called repeatedly on one      *)
(* lexer.                                                                  *)
(***************************************************************************)
LexAlphabet == {"a", "1", " ", "\n", "/", "*", "\"", "'", "\\", "+", "=", "@"}

MaxCalls == MaxSrcLen + 2

NoToken == [type |-> "NONE", value |-> NullStr, line |-> 0, column |-> 0]

NoParser == [lexer |-> create_lexer(<<>>), current_token |-> NoToken,
             error_count |-> 0, panic_mode |-> FALSE, status |-> "ok", log |-> <<>>]

\* the parts of the program that a run does not use stay as constructed
Idle(active) ==
    /\ IF "front" \in active THEN TRUE
       ELSE /\ lexer = create_lexer(<<>>)
            /\ tok = NoToken
            /\ calls = 0
            /\ recon = <<>>
            /\ parser = NoParser
            /\ program = NullNode
            /\ pc = "idle"
            /\ null_deref = "crash"
    /\ IF "pool" \in active THEN TRUE
       ELSE /\ pool = <<>>
            /\ heap = <<>>
            /\ returned = <<>>
    /\ IF "ast" \in active THEN TRUE
       ELSE /\ nodes = <<>>
            /\ roots = <<>>
    /\ IF "codegen" \in active THEN TRUE ELSE codegen = <<>>
    /\ IF "driver" \in active THEN TRUE ELSE driver = <<>>

LexInit ==
    /\ \E source \in SeqsUpTo(LexAlphabet, MaxSrcLen) : lexer = create_lexer(source)
    /\ tok = NoToken
    /\ calls = 0
    /\ recon = <<>>
    /\ parser = NoParser
    /\ program = NullNode
    /\ pc = "lex"
    /\ null_deref = "crash"
    /\ Idle({"front"})

\* one call of next_token; recon collects what the caller can rebuild the
\* source from: the text skipped before the token, then the token's lexeme
LexNextToken ==
    /\ pc = "lex"
    /\ calls < MaxCalls
    /\ LET Returned(r) ==
               /\ lexer' = r.lexer
               /\ tok' = r.token
               /\ recon' = recon \o SubSeq(lexer.source, lexer.position + 1, r.start)
                                 \o r.token.value
       IN  Returned(next_token(lexer))
    /\ calls' = calls + 1
    /\ UNCHANGED <<parser, program, pc, null_deref, backVars>>

LexNext == LexNextToken

LexSpec == LexInit /\ [][LexNext]_vars

(***************************************************************************)
(* The parser driven as compile_file drives it: create_parser, then        *)
(* parse(), whose while loop is taken one step at a time.                  *)
(***************************************************************************)
MaxBodyWords == 3

RECURSIVE Concat(_)
Concat(words) == IF words = <<>> THEN <<>> ELSE Head(words) \o Concat(Tail(words))

\* openings that put what follows inside a construct
Contexts ==
    { <<>>,
      <<"{", " ">>,
      <<"v", "o", "i", "d", " ", "f", "(", ")", "{", " ">>,
      <<"s", "t", "r", "u", "c", "t", " ", "S", "{", " ">>,
      <<"u", "n", "i", "o", "n", " ", "U", "{", " ">>,
      <<"s", "w", "i", "t", "c", "h", "(", "n", "u", "l", "l", ")", "{",
        "c", "a", "s", "e", " ", "n", "u", "l", "l", ":", " ">>,
      <<"f", "o", "r", "(", ";", ";", ")", " ">>,
      <<"i", "f", "(", "n", "u", "l", "l", ")", " ">> }

BodyWords ==
    { <<"i", "3", "2", " ">>, <<"x", " ">>, <<"n", "u", "l", "l", " ">>,
      <<";">>, <<"{">>, <<"}">>, <<")">>, <<"=">>,
      <<"s", "t", "r", "u", "c", "t", " ">>, <<"r", "e", "t", "u", "r", "n", " ">>,
      <<"@">> }

BodySources ==
    {context \o Concat(body) : context \in Contexts, body \in SeqsUpTo(BodyWords, MaxBodyWords)}

\* the lexemes of the binary, assignment and ternary operators
BinaryOperatorWords ==
    { <<"|", "|">>, <<"&", "&">>, <<"|">>, <<"^">>, <<"&">>, <<"=", "=">>, <<"!", "=">>,
      <<"<">>, <<">">>, <<"<", "=">>, <<">", "=">>, <<"<", "<">>, <<">", ">">>,
      <<"+">>, <<"-">>, <<"*">>, <<"/">>, <<"%">> }

AssignmentOperatorWords ==
    { <<"=">>, <<"+", "=">>, <<"-", "=">>, <<"*", "=">>, <<"/", "=">>, <<"%", "=">> }

Operand == <<"n", "u", "l", "l", " ">>

\* operand op1 operand op2 operand ;   and   a ? b : c ? d : e ;
ChainSources ==
    {Operand \o op1 \o <<" ">> \o Operand \o op2 \o <<" ">> \o Operand \o <<";">> :
        op1 \in BinaryOperatorWords \cup AssignmentOperatorWords,
        op2 \in BinaryOperatorWords \cup AssignmentOperatorWords}
    \cup {Operand \o <<"?">> \o Operand \o <<":">> \o Operand \o <<"?">> \o Operand
              \o <<":">> \o Operand \o <<";">>}

\* and declarations spread over several lines
ParseSources ==
    BodySources \cup ChainSources
        \cup { <<"\n", "i", "3", "2", "\n", "x", ";">>,
               <<"\n", "\n", "i", "3", "2", " ", "x", "\n", "(", ")", "{", "\n", "}", "}">> }

ParseInit ==
    /\ \E source \in ParseSources : lexer = create_lexer(source)
    /\ null_deref \in {"crash", "benign"}
    /\ tok = NoToken
    /\ calls = 0
    /\ recon = <<>>
    /\ parser = NoParser
    /\ program = NullNode
    /\ pc = "create"
    /\ Idle({"front"})

\* struct parser parser = create_parser(&lexer)
CreateParser ==
    /\ pc = "create"
    /\ parser' = create_parser(lexer)
    /\ lexer' = parser'.lexer
    /\ pc' = "parse"
    /\ UNCHANGED <<tok, calls, recon, program, null_deref, backVars>>

\* parse(): ast_node *program = create_node(NODE_PROGRAM)
ParseBegin ==
    /\ pc = "parse"
    /\ program' = create_node("NODE_PROGRAM")
    /\ pc' = "loop"
    /\ UNCHANGED <<lexer, tok, calls, recon, parser, null_deref, backVars>>

\* parse(): while (!is_at_end(parser)) ... return program
ParseLoop ==
    /\ pc = "loop"
    /\ pc' = IF is_at_end(parser) THEN "done"
             ELSE IF parser.panic_mode THEN "sync" ELSE "decl"
    /\ UNCHANGED <<lexer, tok, calls, recon, parser, program, null_deref, backVars>>

\* parse(): if (parser->panic_mode) synchronize(parser)
Synchronize ==
    /\ pc = "sync"
    /\ parser' = synchronize(parser)
    /\ lexer' = parser'.lexer
    /\ pc' = "decl"
    /\ UNCHANGED <<tok, calls, recon, program, null_deref, backVars>>

\* parse(): decl = parse_declaration(parser); if (decl) add_child(program, decl)
ParseDeclaration ==
    /\ pc = "decl"
    /\ LET Returned(r) ==
               /\ parser' = r.p
               /\ lexer' = r.p.lexer
               /\ program' = IF Halted(r.p) THEN program ELSE add_child(program, r.node)
               /\ pc' = CASE r.p.status = "ok" -> "loop"
                          [] r.p.status = "crash" -> "crashed"
                          [] r.p.status = "hang" -> "hung"
       IN  Returned(parse_declaration(parser))
    /\ UNCHANGED <<tok, calls, recon, null_deref, backVars>>

ParseNext == CreateParser \/ ParseBegin \/ ParseLoop \/ Synchronize \/ ParseDeclaration

ParseSpec == ParseInit /\ [][ParseNext]_vars

(***************************************************************************)
(* The string pool driven on its own: callers intern strings one after     *)
(* another and keep the pointers they are given.                           *)
(***************************************************************************)
MaxPoolStrings == 4

\* the pool of init_compiler_memory, in a heap that holds nothing else
PoolInit ==
    /\ pool = [pool |-> 1, used |-> 0, capacity |-> INITIAL_STRING_POOL_SIZE,
               string_refs |-> <<>>, ref_capacity |-> INITIAL_STRING_REFS]
    /\ heap = << [live |-> TRUE,
                  bytes |-> [i \in 1..INITIAL_STRING_POOL_SIZE |-> "?"]] >>
    /\ returned = <<>>
    /\ Idle({"pool"})

\* char *s = pool_string(pool, str, len); the caller keeps s
PoolString ==
    /\ Len(returned) < MaxPoolStrings
    /\ \E str \in {<<"a">>, <<"a", "b", "c", "d", "e", "f", "g", "h">>,
                   <<"a", "b", "c", "d", "e", "f", "g", "h", "i", "j", "k", "l", "m",
                     "n", "o", "p", "q">>, NullStr},
          pool_realloc \in {"failed", "in_place", "moved"},
          refs_realloc \in {"failed", "in_place"} :
          \E len \in IF str = NullStr THEN {1} ELSE {0, Len(str) - 1, Len(str)} :
             LET Returned(r) ==
                     /\ pool' = r.pool
                     /\ heap' = r.heap
                     /\ returned' = IF r.result = NullPtr THEN returned
                                    ELSE Append(returned, [ptr |-> r.result,
                                                           str |-> SubSeq(str, 1, len)])
             IN  Returned(pool_string(pool, heap, str, len, pool_realloc, refs_realloc))
    /\ UNCHANGED <<frontVars, nodes, roots, codegen, driver>>

PoolSpec == PoolInit /\ [][PoolString]_vars

(***************************************************************************)
(* copy_node driven on its own: a caller builds trees, copies one of them  *)
(* and then edits the copy.  roots holds the caller's pointers (original   *)
(* and copy), the tree the original was when it was copied, and the number *)
(* of edits made to the copy.                                              *)
(***************************************************************************)
MaxTreeNodes == 3

MaxEdits == 2

\* the tree at address a as a value: kind, value string and child trees
RECURSIVE TreeAt(_, _)
TreeAt(ns, a) ==
    [type |-> ns[a].type, value |-> ns[a].value,
     children |-> [i \in 1..Len(ns[a].children) |-> TreeAt(ns, ns[a].children[i])]]

CopyInit ==
    /\ nodes = <<>>
    /\ roots = [original |-> 0, copy |-> 0, tree |-> NullNode, edits |-> 0]
    /\ Idle({"ast"})

\* create_node_with_value / create_literal_node
BuildNode ==
    /\ roots.copy = 0
    /\ Len(nodes) < MaxTreeNodes
    /\ \/ nodes' = create_node_with_value(nodes, "NODE_BLOCK", NullStr)
       \/ nodes' = [create_node_with_value(nodes, "NODE_NUMBER_LITERAL", <<"1">>)
                       EXCEPT ![Len(nodes) + 1].data = 1]
    /\ UNCHANGED <<frontVars, pool, heap, returned, roots, codegen, driver>>

\* add_child(parent, child), child a tree that has no parent yet
BuildChild ==
    /\ roots.copy = 0
    /\ \E parent \in 1..Len(nodes), child \in 1..Len(nodes) :
          /\ parent \notin Reach(nodes, child)
          /\ \A a \in 1..Len(nodes) :
                \A i \in 1..Len(nodes[a].children) : nodes[a].children[i] # child
          /\ nodes' = insert_child(nodes, parent, Len(nodes[parent].children), child)
    /\ UNCHANGED <<frontVars, pool, heap, returned, roots, codegen, driver>>

\* copy = copy_node(original)
CopyNode ==
    /\ roots.copy = 0
    /\ \E original \in 1..Len(nodes) :
          LET Returned(r) ==
                  /\ nodes' = r.nodes
                  /\ roots' = [original |-> original, copy |-> r.node,
                               tree |-> TreeAt(nodes, original), edits |-> 0]
          IN  Returned(copy_node(nodes, original))
    /\ UNCHANGED <<frontVars, pool, heap, returned, codegen, driver>>

\* add_child, insert_child or remove_child on a node of the copy; the child
\* added is a new node
EditCopy ==
    /\ roots.copy # 0
    /\ roots.edits < MaxEdits
    /\ \E parent \in Reach(nodes, roots.copy) :
          \/ nodes' = insert_child(create_node_with_value(nodes, "NODE_IDENTIFIER", <<"x">>),
                                   parent, Len(nodes[parent].children), Len(nodes) + 1)
          \/ \E index \in 0..Len(nodes[parent].children) :
                nodes' = insert_child(create_node_with_value(nodes, "NODE_IDENTIFIER", <<"x">>),
                                      parent, index, Len(nodes) + 1)
          \/ \E index \in 0..Len(nodes[parent].children) :
                nodes' = remove_child(nodes, parent, index)
    /\ roots' = [roots EXCEPT !.edits = @ + 1]
    /\ UNCHANGED <<frontVars, pool, heap, returned, codegen, driver>>

CopySpec == CopyInit /\ [][BuildNode \/ BuildChild \/ CopyNode \/ EditCopy]_vars

(***************************************************************************)
(* The code generator behind the parser, as compile_file runs them: the    *)
(* source is parsed and, if that left no error, generate() lowers the      *)
(* tree.                                                                   *)
(***************************************************************************)
MaxStatements == 2

MaxGlobals == 8

\* void NAME(){ statements }} alone or before a void main(){}}: the second
\* "}" is what parse_block, which parse_function_declaration calls on the
\* "{", wants after it has taken the braces for an inner block.  Then the
\* functions closed by one "}", and a stray ")" that parse() recovers from.
GenSources ==
    LET Statements ==
            { <<"i", "f", "(", "n", "u", "l", "l", ")", "{", "}">>,
              <<"i", "f", "(", "n", "u", "l", "l", ")", "{", "}", "e", "l", "s", "e", "{", "}">>,
              <<"w", "h", "i", "l", "e", "(", "n", "u", "l", "l", ")", "{", "}">>,
              <<"r", "e", "t", "u", "r", "n", ";">>,
              <<"r", "e", "t", "u", "r", "n", " ", "1", ";">>,
              <<"\"", "a", "\"", ";">> }
            \cup {<<"f", "o", "r", "(">> \o init \o <<";">> \o cond \o <<";">> \o step
                      \o <<")", "{", "}">> :
                     init \in {<<>>, <<"n", "u", "l", "l">>},
                     cond \in {<<>>, <<"n", "u", "l", "l">>},
                     step \in {<<>>, <<"n", "u", "l", "l">>}}
        Function(name, body, close) ==
            <<"v", "o", "i", "d", " ">> \o name \o <<"(", ")", "{">> \o Concat(body) \o close
        Names == {<<"m", "a", "i", "n">>, <<"_", "s", "t", "a", "r", "t">>}
        \* one more statement each: a switch, an if in a function named like a
        \* label, and an expression of every kind
        Single ==
            { <<"s", "w", "i", "t", "c", "h", "(", "n", "u", "l", "l", ")", "{", "c", "a", "s", "e", " ", "n", "u", "l", "l", ":", "n", "u", "l", "l", ";", "}">>,
              <<"s", "w", "i", "t", "c", "h", "(", "n", "u", "l", "l", ")", "{", "c", "a", "s", "e", " ", "n", "u", "l", "l", ":", "n", "u", "l", "l", ";", "d", "e", "f", "a", "u", "l", "t", ":", "n", "u", "l", "l", ";", "}">>,
              <<"s", "w", "i", "t", "c", "h", "(", "n", "u", "l", "l", ")", "{", "c", "a", "s", "e", " ", "n", "u", "l", "l", ":", "c", "a", "s", "e", " ", "n", "u", "l", "l", ":", "d", "e", "f", "a", "u", "l", "t", ":", "}">>,
              <<"s", "w", "i", "t", "c", "h", "(", "n", "u", "l", "l", ")", "{", "}">>,
              <<"n", "u", "l", "l", ";">>,
              <<"x", ";">>,
              <<"-", "n", "u", "l", "l", ";">>,
              <<"n", "u", "l", "l", "+", "n", "u", "l", "l", ";">>,
              <<"n", "u", "l", "l", "=", "n", "u", "l", "l", ";">>,
              <<"n", "u", "l", "l", "?", "n", "u", "l", "l", ":", "n", "u", "l", "l", ";">>,
              <<"n", "u", "l", "l", "(", ")", ";">>,
              <<"n", "u", "l", "l", "[", "n", "u", "l", "l", "]", ";">>,
              <<"n", "u", "l", "l", ".", "x", ";">>,
              <<"s", "i", "z", "e", "o", "f", " ", "n", "u", "l", "l", ";">>,
              <<"n", "u", "l", "l", "+", "+", ";">>,
              <<"'", "a", "'", ";">>,
              <<"t", "r", "u", "e", ";">>,
              <<"1", ".", "5", ";">> }
        \* void NAME(parameters){}}
        Declaration(name, parameters) ==
            <<"v", "o", "i", "d", " ">> \o name \o <<"(">> \o parameters \o <<")", "{", "}", "}">>
        Parameters ==
            { <<>>, <<"i", "3", "2", " ", "a">>, <<"i", "8", " ", "a">>,
              <<"i", "3", "2", " ", "a", ",", "i", "6", "4", " ", "b">> }
        \* for(T x;null;null){} n times: the one place where the parser takes a
        \* declaration inside a function
        RECURSIVE Locals(_, _)
        Locals(type, n) ==
            IF n = 0 THEN <<>>
            ELSE <<"f", "o", "r", "(">> \o type \o <<" ", "x", ";", "n", "u", "l", "l", ";", "n", "u", "l", "l", ")", "{", "}">> \o Locals(type, n - 1)
        \* T x; n times
        RECURSIVE Variables(_, _)
        Variables(type, n) ==
            IF n = 0 THEN <<>> ELSE type \o <<" ", "x", ";">> \o Variables(type, n - 1)
        Globals == { <<>>, <<"i", "6", "4", " ", "x", ";">>, <<"i", "8", " ", "x", ";">> }
    IN  {Function(name, body, <<"}", "}">>) \o after :
            name \in Names, body \in SeqsUpTo(Statements, MaxStatements),
            after \in {<<>>, Function(<<"m", "a", "i", "n">>, <<>>, <<"}", "}">>)}}
        \cup {before \o Function(name, <<>>, close) :
                 before \in {<<>>, <<")">>}, name \in Names,
                 close \in {<<"}">>, <<"}", "}">>}}
        \cup {Function(<<"m", "a", "i", "n">>, <<statement>>, <<"}", "}">>) :
                 statement \in Single}
        \cup {Function(<<"e", "l", "s", "e", "_", "0">>, <<<<"i", "f", "(", "n", "u", "l", "l", ")", "{", "}">>>>, <<"}", "}">>)}
        \cup {global \o Declaration(<<"f">>, first) \o Declaration(<<"g">>, second) :
                 global \in Globals, first \in Parameters, second \in Parameters}
        \cup {Variables(type, n) \o Function(<<"f">>, <<Locals(type, m)>>, <<"}", "}">>)
                   \o Function(<<"g">>, <<Locals(type, 1)>>, <<"}", "}">>) :
                 type \in {<<"i", "6", "4">>, <<"i", "8">>}, n \in 0..MaxGlobals, m \in 0..2}

\* create_code_generator(arch, opt) for the x86_64 target
create_code_generator(opt) ==
    [output |-> <<>>, label_counter |-> 0, strings |-> <<>>,
     variables |-> <<>>, functions |-> <<>>,
     current_stack_offset |-> 0, scope_level |-> 0,
     in_function |-> FALSE, current_function |-> NullStr,
     debug_info |-> (opt = "OPT_DEBUG"),
     labels |-> <<>>, lookups |-> <<>>, added |-> <<>>]

\* create_lexer(source); create_code_generator(arch, opt_level)
GenInit ==
    /\ \E source \in GenSources : lexer = create_lexer(source)
    /\ null_deref \in {"crash", "benign"}
    /\ tok = NoToken
    /\ calls = 0
    /\ recon = <<>>
    /\ parser = NoParser
    /\ program = NullNode
    /\ pc = "create"
    /\ \E opt \in {"OPT_NONE", "OPT_DEBUG"} : codegen = create_code_generator(opt)
    /\ Idle({"front", "codegen"})

\* if (!ast || parser.error_count > 0) return false;
\* char *assembly = generate(&codegen, ast)
Generate ==
    /\ pc = "done"
    /\ parser.error_count = 0
    /\ codegen' = generate(codegen, program)
    /\ pc' = "generated"
    /\ UNCHANGED <<lexer, tok, calls, recon, parser, program, null_deref,
                   pool, heap, returned, nodes, roots, driver>>

GenSpec ==
    GenInit /\ [][CreateParser \/ ParseBegin \/ ParseLoop \/ Synchronize
                     \/ ParseDeclaration \/ Generate]_vars

(***************************************************************************)
(* The driver (src/src/main.cpp).  driver holds the locals of main(): the  *)
(* options, the loop index i, success, the arrays obj_files and temp_files *)
(* of the malloc'ed file names (a name is written <<extension, i>>), the   *)
(* position in main, and its exit status once the process has ended.       *)
(* steps records what each step did, for the properties below.             *)
(***************************************************************************)
MaxFiles == 3

\* compile_file(input_file, opts), given how far the file gets
compile_file(event) ==
    CASE event = "file_not_found" -> FALSE
      [] event = "parse_error" -> FALSE       \* !ast || parser.error_count > 0
      [] event = "emitter_error" -> FALSE     \* codegen.error_count > 0
      [] event = "cannot_write" -> FALSE      \* fopen(asm_file, "w") fails
      [] event = "assembler_failure" -> FALSE \* assemble_file returns false
      [] event = "assembled" -> TRUE

DriverInit ==
    /\ \E input_count \in 1..MaxFiles, compile_only \in BOOLEAN,
          create_library \in BOOLEAN, keep_asm \in BOOLEAN :
          driver = [input_count |-> input_count, compile_only |-> compile_only,
                    create_library |-> create_library, keep_asm |-> keep_asm,
                    i |-> 0, success |-> TRUE, obj_files |-> <<>>, temp_files |-> <<>>,
                    pc |-> "compile", status |-> -1, steps |-> <<>>]
    /\ Idle({"driver"})

\* one iteration of the for loop over the input files, or its end
CompileFile ==
    /\ driver.pc = "compile"
    /\ \/ /\ driver.i >= driver.input_count
          /\ driver' = [driver EXCEPT !.pc = "link"]
       \/ /\ driver.i < driver.input_count
          /\ \E event \in {"file_not_found", "parse_error", "emitter_error", "cannot_write",
                           "assembler_failure", "assembled"} :
                driver' =
                    IF ~compile_file(event)
                    THEN [driver EXCEPT !.success = FALSE, !.pc = "link",
                                        !.steps = Append(@, event)]
                    ELSE [driver EXCEPT
                             !.obj_files = Append(@, <<".o", driver.i>>),
                             !.temp_files =
                                 IF driver.keep_asm THEN Append(@, <<".o", driver.i>>)
                                 ELSE Append(Append(@, <<".o", driver.i>>), <<".s", driver.i>>),
                             !.i = @ + 1,
                             !.steps = Append(@, event)]
    /\ UNCHANGED <<frontVars, pool, heap, returned, nodes, roots, codegen>>

\* if (success && !opts.compile_only) create_static_library or link_files
LinkOrArchive ==
    /\ driver.pc = "link"
    /\ \/ /\ ~(driver.success /\ ~driver.compile_only)
          /\ driver' = [driver EXCEPT !.pc = "free"]
       \/ /\ driver.success /\ ~driver.compile_only
          /\ \E tool_succeeds \in BOOLEAN :
                driver' = [driver EXCEPT
                              !.pc = "free",
                              !.success = tool_succeeds /\ driver.obj_files # <<>>,
                              !.steps = Append(@, IF driver.create_library
                                                  THEN IF tool_succeeds THEN "archived"
                                                       ELSE "archive_failure"
                                                  ELSE IF tool_succeeds THEN "linked"
                                                       ELSE "link_failure")]
    /\ UNCHANGED <<frontVars, pool, heap, returned, nodes, roots, codegen>>

\* cleanup_temp_files; free(obj_files[i]) for all i, free(temp_files[i]) for
\* all i; return success ? 0 : 1.  Freeing a pointer a second time is
\* undefined: the allocator aborts the process (SIGABRT, status 134) or
\* the run goes on.
Exit ==
    /\ driver.pc = "free"
    /\ LET frees == driver.obj_files \o driver.temp_files
           double_free == \E j \in 1..Len(frees), k \in 1..Len(frees) :
                              j < k /\ frees[j] = frees[k]
       IN  \E aborts \in IF double_free THEN BOOLEAN ELSE {FALSE} :
              driver' = [driver EXCEPT
                            !.pc = "exited",
                            !.status = IF aborts THEN 134
                                       ELSE IF driver.success THEN 0 ELSE 1]
    /\ UNCHANGED <<frontVars, pool, heap, returned, nodes, roots, codegen>>

DriverSpec == DriverInit /\ [][CompileFile \/ LinkOrArchive \/ Exit]_vars

(***************************************************************************)
(* The validator on its own: a caller hands validate_ast a tree it has     *)
(* built with create_node and add_child, or no tree at all.                *)
(***************************************************************************)
MaxChildren == 5

ValidateInit ==
    /\ LET Leaf == create_node("NODE_NULL_LITERAL")
           Kinds ==
               {"NODE_BINARY_OP", "NODE_UNARY_OP", "NODE_POSTFIX_OP", "NODE_ASSIGNMENT",
                "NODE_TERNARY", "NODE_IF_STATEMENT", "NODE_WHILE_STATEMENT",
                "NODE_FOR_STATEMENT", "NODE_FUNCTION", "NODE_VARIABLE_DECLARATION",
                "NODE_PARAMETER", "NODE_MEMBER_ACCESS", "NODE_ARRAY_ACCESS",
                "NODE_CASE_STATEMENT", "NODE_SWITCH_STATEMENT", "NODE_BLOCK"}
           \* a node of kind type with n children: first, then leaves
           RECURSIVE Built(_, _, _)
           Built(type, first, n) ==
               IF n = 0 THEN create_node(type)
               ELSE add_child(Built(type, first, n - 1), IF n = 1 THEN first ELSE Leaf)
           Over(firsts) ==
               {Built(type, first, n) : type \in Kinds, first \in firsts, n \in 0..MaxChildren}
       IN  program \in {NullNode} \cup Over({Leaf}) \cup Over(Over({Leaf}))
    /\ lexer = create_lexer(<<>>)
    /\ tok = NoToken
    /\ calls = 0
    /\ recon = <<>>
    /\ parser = NoParser
    /\ pc = "validate"
    /\ null_deref = "crash"
    /\ Idle({"front"})

\* bool valid = validate_ast(root)
Validate ==
    /\ pc = "validate"
    /\ pc' = IF validate_ast(program) THEN "valid" ELSE "invalid"
    /\ UNCHANGED <<lexer, tok, calls, recon, parser, program, null_deref, backVars>>

ValidateSpec == ValidateInit /\ [][Validate]_vars

(***************************************************************************)
(* Properties of the scanner                                               *)
(***************************************************************************)
\* the kinds of all tokens next_token returns from l up to the end
RECURSIVE TokenKinds(_)
TokenKinds(l) ==
    LET r == next_token(l)
    IN  IF r.token.type = "TOKEN_EOF" THEN {}
        ELSE {r.token.type} \cup TokenKinds(r.lexer)

SourceKinds == TokenKinds(create_lexer(lexer.source))

Consumed == SubSeq(lexer.source, 1, lexer.position)

\* C5 as stated: for a source without TOKEN_INVALID the lexemes returned so
\* far, interleaved with the skipped text, are the source read so far
\* (string and character literals included).
C5_RoundTripAllTokens ==
    (pc = "lex" /\ "TOKEN_INVALID" \notin SourceKinds) => recon = Consumed

\* C5 amended: for a source that yields no TOKEN_INVALID, no TOKEN_STRING and
\* no TOKEN_CHAR, the lexemes returned so far interleaved with the skipped
\* whitespace and comments are exactly the source read so far.
C5_RoundTripPlainTokens ==
    (pc = "lex" /\ SourceKinds \cap {"TOKEN_INVALID", "TOKEN_STRING", "TOKEN_CHAR"} = {})
        => recon = Consumed

C5_Witness ==
    /\ pc = "lex"
    /\ tok.type = "TOKEN_EOF"
    /\ SourceKinds \cap {"TOKEN_INVALID", "TOKEN_STRING", "TOKEN_CHAR"} = {}
    /\ Cardinality(SourceKinds) >= 2
    /\ \E i \in 1..lexer.length : lexer.source[i] = " "
    /\ recon = lexer.source

\* C6: a call of next_token made after a call that returned TOKEN_EOF returns
\* TOKEN_EOF again and leaves position, line and column as they were.
C6_EofSticky ==
    [][(pc = "lex" /\ tok.type = "TOKEN_EOF") =>
          /\ tok'.type = "TOKEN_EOF"
          /\ lexer'.position = lexer.position
          /\ lexer'.line = lexer.line
          /\ lexer'.column = lexer.column]_vars

C6_Witness ==
    /\ pc = "lex"
    /\ tok.type = "TOKEN_EOF"
    /\ lexer.length >= 1
    /\ calls >= lexer.length + 2

\* C7: a call of next_token made while position < length strictly increases
\* position and never passes length; after length + 1 calls the token
\* returned is TOKEN_EOF.
C7_LexerProgress ==
    /\ [][(pc = "lex" /\ lexer.position < lexer.length) =>
             (lexer'.position > lexer.position /\ lexer'.position <= lexer'.length)]_vars
    /\ []((pc = "lex" /\ calls >= lexer.length + 1) => tok.type = "TOKEN_EOF")

C7_Witness ==
    /\ pc = "lex"
    /\ calls = lexer.length + 1
    /\ lexer.length >= 3
    /\ tok.type = "TOKEN_EOF"
    /\ \A i \in 1..lexer.length : lexer.source[i] \in {"@", "\"", "'", "/"}

(***************************************************************************)
(* Properties of the parser                                                *)
(***************************************************************************)
\* the kinds of the tokens next_token returns from l, TOKEN_EOF included
RECURSIVE KindsFrom(_)
KindsFrom(l) ==
    LET r == next_token(l)
    IN  IF r.token.type = "TOKEN_EOF" THEN <<"TOKEN_EOF">>
        ELSE <<r.token.type>> \o KindsFrom(r.lexer)

\* the kinds of the tokens of the whole source
ProgramKinds == KindsFrom(create_lexer(lexer.source))

\* the kinds of the tokens p has still to consume, the current one first
Upcoming(p) ==
    IF p.current_token.type = "TOKEN_EOF" THEN <<"TOKEN_EOF">>
    ELSE <<p.current_token.type>> \o KindsFrom(p.lexer)

StartsWith(kinds, prefix) ==
    Len(kinds) >= Len(prefix) /\ SubSeq(kinds, 1, Len(prefix)) = prefix

Finished == pc \in {"done", "crashed", "hung"}

\* C1: parse() terminates on every input: no loop of the parser repeats an
\* iteration without consuming a token.
C1_ParseTerminates == pc # "hung"

\* C2: when parse() finishes with error_count = 0, validate_ast accepts the
\* tree it returns.
C2_WellFormedValidates ==
    (pc = "done" /\ parser.error_count = 0) => validate_ast(program)

LevelOf(kind) == CHOOSE k \in 1..Len(BinaryLevels) : kind \in BinaryLevels[k]

BinaryTokens == UNION {BinaryLevels[k] : k \in 1..Len(BinaryLevels)}

\* the source is  operand op1 operand op2 operand ;
IsChain(kinds, ops) ==
    /\ Len(kinds) = 7
    /\ kinds[1] = "TOKEN_NULL" /\ kinds[3] = "TOKEN_NULL" /\ kinds[5] = "TOKEN_NULL"
    /\ kinds[2] \in ops /\ kinds[4] \in ops
    /\ kinds[6] = "TOKEN_SEMICOLON"

IsTernaryChain(kinds) ==
    StartsWith(kinds, <<"TOKEN_NULL", "TOKEN_QUESTION", "TOKEN_NULL", "TOKEN_COLON",
                        "TOKEN_NULL", "TOKEN_QUESTION", "TOKEN_NULL", "TOKEN_COLON",
                        "TOKEN_NULL", "TOKEN_SEMICOLON">>)

\* the expression of the first top-level statement of a finished parse
FirstExpression == program.children[1].children[1]

HasFirstExpression ==
    /\ pc = "done"
    /\ Len(program.children) >= 1
    /\ program.children[1].type = "NODE_EXPRESSION_STATEMENT"
    /\ Len(program.children[1].children) = 1

IsOperand(node) == node.type = "NODE_NULL_LITERAL"

\* op(op(a, b), c)
GroupsLeft(e, kind) ==
    /\ e.type = kind /\ Len(e.children) = 2
    /\ e.children[1].type = kind /\ Len(e.children[1].children) = 2
    /\ IsOperand(e.children[1].children[1]) /\ IsOperand(e.children[1].children[2])
    /\ IsOperand(e.children[2])

\* op(a, op(b, c))
GroupsRight(e, kind) ==
    /\ e.type = kind /\ Len(e.children) = 2
    /\ IsOperand(e.children[1])
    /\ e.children[2].type = kind /\ Len(e.children[2].children) = 2
    /\ IsOperand(e.children[2].children[1]) /\ IsOperand(e.children[2].children[2])

\* ?(a, b, ?(c, d, e))
TernaryGroupsRight(e) ==
    /\ e.type = "NODE_TERNARY" /\ Len(e.children) = 3
    /\ IsOperand(e.children[1]) /\ IsOperand(e.children[2])
    /\ e.children[3].type = "NODE_TERNARY" /\ Len(e.children[3].children) = 3

\* C3: a chain of two operators of one level is grouped to the left when the
\* level is one of the ten binary levels, and to the right when the operators
\* are assignments or the chain is a ? b : c ? d : e.
C3_Associativity ==
    /\ (Finished /\ IsChain(ProgramKinds, BinaryTokens)
          /\ LevelOf(ProgramKinds[2]) = LevelOf(ProgramKinds[4]))
          => (HasFirstExpression /\ GroupsLeft(FirstExpression, "NODE_BINARY_OP"))
    /\ (Finished /\ IsChain(ProgramKinds, AssignmentTokens))
          => (HasFirstExpression /\ GroupsRight(FirstExpression, "NODE_ASSIGNMENT"))
    /\ (Finished /\ IsTernaryChain(ProgramKinds))
          => (HasFirstExpression /\ TernaryGroupsRight(FirstExpression))

\* C4: of two binary operators of different levels the one of the
\* higher-binding level ends up as a child of the other, whichever comes
\* first in the source.
C4_Precedence ==
    (Finished /\ IsChain(ProgramKinds, BinaryTokens)
       /\ LevelOf(ProgramKinds[2]) # LevelOf(ProgramKinds[4]))
       => /\ HasFirstExpression
          /\ IF LevelOf(ProgramKinds[2]) > LevelOf(ProgramKinds[4])
             THEN GroupsLeft(FirstExpression, "NODE_BINARY_OP")
             ELSE GroupsRight(FirstExpression, "NODE_BINARY_OP")

\* the calls of parser_error_at_current that found panic_mode false
Episodes(log) == {i \in 1..Len(log) : ~log[i].panic_mode}

\* C8: a call of parser_error_at_current adds one to error_count and sets
\* panic_mode when it finds panic_mode false and leaves error_count alone
\* when it finds it true; error_count is the number of calls of the first
\* sort, and no step of parse() decreases it.
C8_OneErrorPerEpisode ==
    /\ [](\A i \in 1..Len(parser.log) :
            LET e == parser.log[i]
            IN  /\ e.panic_after
                /\ e.after = IF e.panic_mode THEN e.before ELSE e.before + 1)
    /\ [](parser.error_count = Cardinality(Episodes(parser.log)))
    /\ [][parser'.error_count >= parser.error_count]_vars

C8_Witness ==
    /\ pc = "done"
    /\ parser.error_count >= 2
    /\ \E i \in 1..Len(parser.log) : parser.log[i].panic_mode
    /\ Cardinality(Episodes(parser.log)) = parser.error_count

\* where synchronize is to stop: the first upcoming token that follows a
\* semicolon or is one of struct, enum, union, for, if, while, return, EOF
SynchronizeTarget(kinds) ==
    CHOOSE i \in 1..Len(kinds) :
        /\ \/ kinds[i] \in SynchronizeTokens \cup {"TOKEN_EOF"}
           \/ (i > 1 /\ kinds[i - 1] = "TOKEN_SEMICOLON")
        /\ \A j \in 1..(i - 1) :
              /\ kinds[j] \notin SynchronizeTokens \cup {"TOKEN_EOF"}
              /\ ~(j > 1 /\ kinds[j - 1] = "TOKEN_SEMICOLON")

\* C9: synchronize leaves as current token the first upcoming token that
\* follows a semicolon or is struct, enum, union, for, if, while, return or
\* EOF.
C9_SynchronizeStops ==
    [][pc = "sync" =>
          Len(Upcoming(parser')) =
              Len(Upcoming(parser)) - (SynchronizeTarget(Upcoming(parser)) - 1)]_vars

\* C10: a block that opens with  T name ;  (T a primitive type) gets a
\* VARIABLE_DECLARATION as first child of its BLOCK node.
C10_BlockDeclaration ==
    (/\ \E t \in PrimitiveTypeTokens :
            StartsWith(ProgramKinds, <<"TOKEN_LEFT_BRACE", t, "TOKEN_IDENTIFIER",
                                       "TOKEN_SEMICOLON">>)
     /\ Finished \/ (pc = "loop" /\ Len(program.children) >= 1))
        => /\ pc # "hung"
           /\ Len(program.children) >= 1
           /\ program.children[1].type = "NODE_BLOCK"
           /\ Len(program.children[1].children) >= 1
           /\ program.children[1].children[1].type = "NODE_VARIABLE_DECLARATION"

(***************************************************************************)
(* Properties of the string pool                                           *)
(***************************************************************************)
\* the bytes a char* addresses, up to and including the byte at length len
BytesAt(ptr, len) ==
    [k \in 1..(len + 1) |-> heap[ptr.block].bytes[ptr.offset + k]]

\* C11: after any sequence of pool_string calls on one pool, every pointer
\* that an earlier call returned still points into allocated memory and
\* addresses the bytes of its string followed by a NUL.
C11_ReturnedPointersStay ==
    \A i \in 1..Len(returned) :
        /\ heap[returned[i].ptr.block].live
        /\ BytesAt(returned[i].ptr, Len(returned[i].str)) = Append(returned[i].str, NUL)

(***************************************************************************)
(* Properties of copy_node                                                 *)
(***************************************************************************)
\* C12: the tree copy_node returns is structurally equal to the original
\* (kind, value string, children in order, recursively) and shares no node
\* with it, and add_child, insert_child and remove_child on the copy leave
\* the original as it was.
C12_CopyIsDeepAndEqual ==
    roots.copy # 0 =>
        /\ roots.edits = 0 => TreeAt(nodes, roots.copy) = roots.tree
        /\ Reach(nodes, roots.copy) \cap Reach(nodes, roots.original) = {}
        /\ TreeAt(nodes, roots.original) = roots.tree

\* a tree with a grandchild was copied and the copy was then edited twice
C12_Witness ==
    /\ roots.copy # 0
    /\ roots.edits = 2
    /\ \E i \in 1..Len(roots.tree.children) : roots.tree.children[i].children # <<>>
    /\ TreeAt(nodes, roots.copy) # roots.tree

(***************************************************************************)
(* Properties of the code generator                                        *)
(***************************************************************************)
\* the lines of the generated text
Lines == {codegen.output[i] : i \in 1..Len(codegen.output)}

\* C13: whatever functions the program declares, the text generate()
\* returns has exactly one line that defines the label _start.
C13_OneStartLabel ==
    pc = "generated" =>
        Cardinality({i \in 1..Len(codegen.output) : codegen.output[i] = "_start:"}) = 1

\* .global _start, the .data section with a line for every string of the
\* table, the .text section and the entry sequence
RECURSIVE StringText(_)
StringText(s) == IF s = <<>> THEN "" ELSE Head(s) \o StringText(Tail(s))

HeaderAndEntry ==
    <<".global _start", ".section .data">>
    \o [i \in 1..Len(codegen.strings) |->
           "str" \o ToString(i - 1) \o ": .ascii \"" \o StringText(codegen.strings[i]) \o "\""]
    \o <<".section .text", "_start:", "    call main", "    mov %rax, %rdi",
         "    mov $60, %rax", "    syscall">>

\* C14 as stated: the text starts with .global _start, the .data section,
\* the .text line and the _start: entry sequence, and everything lowered
\* from the program comes after them.
C14_HeaderThenProgram ==
    pc = "generated" =>
        /\ Len(codegen.output) >= Len(HeaderAndEntry)
        /\ SubSeq(codegen.output, 1, Len(HeaderAndEntry)) = HeaderAndEntry

\* C14: the text ends with .global _start, the .data section with one line
\* per string, the .text line and the _start: entry sequence, in this
\* order; everything lowered from the program comes before .global _start.
C14_ProgramThenHeader ==
    pc = "generated" =>
        /\ Len(codegen.output) >= Len(HeaderAndEntry)
        /\ SubSeq(codegen.output, Len(codegen.output) - Len(HeaderAndEntry) + 1,
                  Len(codegen.output)) = HeaderAndEntry
        /\ \A i \in 1..(Len(codegen.output) - Len(HeaderAndEntry)) :
              codegen.output[i] \notin {".global _start", ".section .data", ".section .text"}

\* a function with a string literal and an if statement was lowered
C14_Witness ==
    /\ pc = "generated"
    /\ Len(codegen.strings) = 1
    /\ "main:" \in Lines
    /\ "    je else_0" \in Lines
    /\ Len(codegen.output) > Len(HeaderAndEntry)

Steps == {driver.steps[i] : i \in 1..Len(driver.steps)}

FailedSteps ==
    Steps \cap {"file_not_found", "parse_error", "emitter_error", "cannot_write",
                "assembler_failure", "archive_failure", "link_failure"}

\* C16: the exit status is 0 exactly when no step failed; the first file
\* that fails ends the loop; the link or archive step runs only when every
\* file compiled and -c was not given; the status is 1 if a step failed.
C16_ExitStatus ==
    /\ driver.pc = "exited" =>
          /\ driver.status = 0 <=> FailedSteps = {}
          /\ FailedSteps # {} => driver.status = 1
    /\ \A j \in 1..Len(driver.steps) :
          /\ driver.steps[j] \in FailedSteps => j = Len(driver.steps)
          /\ driver.steps[j] \in {"archived", "archive_failure", "linked", "link_failure"} =>
                /\ ~driver.compile_only
                /\ j = driver.input_count + 1
                /\ \A k \in 1..(j - 1) : driver.steps[k] = "assembled"

(***************************************************************************)
(* Properties of the trees the parser builds                               *)
(***************************************************************************)
\* the nodes of a tree
RECURSIVE NodesOf(_)
NodesOf(tree) ==
    IF tree = NullNode THEN {}
    ELSE {tree} \cup UNION {NodesOf(tree.children[i]) : i \in 1..Len(tree.children)}

\* the lexemes of the tokens of kinds kinds that next_token returns from l on
RECURSIVE LexemesFrom(_, _)
LexemesFrom(l, kinds) ==
    LET Rest(r) ==
            IF r.token.type = "TOKEN_EOF" THEN {}
            ELSE (IF r.token.type \in kinds THEN {r.token.value} ELSE {})
                     \cup LexemesFrom(r.lexer, kinds)
    IN  Rest(next_token(l))

SourceLexemes(kinds) == LexemesFrom(create_lexer(lexer.source), kinds)

\* C17: a node built from a token just matched has that token's lexeme as
\* its value: the operator for BINARY_OP, UNARY_OP, POSTFIX_OP and
\* ASSIGNMENT, "." or "->" for MEMBER_ACCESS, the text of the literal or
\* identifier for the primaries; and the parser gets as far as building it.
C17_NodeValuesAreLexemes ==
    /\ pc # "crashed"
    /\ \A n \in NodesOf(program) :
          /\ n.type = "NODE_BINARY_OP" => n.value \in SourceLexemes(BinaryTokens)
          /\ n.type = "NODE_ASSIGNMENT" => n.value \in SourceLexemes(AssignmentTokens)
          /\ n.type = "NODE_UNARY_OP" => n.value \in SourceLexemes(UnaryTokens)
          /\ n.type = "NODE_POSTFIX_OP" =>
                n.value \in SourceLexemes({"TOKEN_INCREMENT", "TOKEN_DECREMENT"})
          /\ n.type = "NODE_MEMBER_ACCESS" =>
                n.value \in SourceLexemes({"TOKEN_DOT", "TOKEN_ARROW"})
          /\ n.type \in {PrimaryNodes[t] : t \in DOMAIN PrimaryNodes} =>
                n.value \in SourceLexemes(DOMAIN PrimaryNodes)

\* C18: once a source is parsed without error, every FOR_STATEMENT node has
\* its children at fixed positions, init, cond, step, body, whichever
\* clauses the source omits (an omitted clause leaving a placeholder), so
\* that the child at index 1 is the condition or its placeholder and the
\* emitter lowers the statement.
C18_ForChildrenAtFixedPositions ==
    pc \in {"done", "generated"} /\ parser.error_count = 0 =>
        \A n \in NodesOf(program) :
            n.type = "NODE_FOR_STATEMENT" =>
                /\ Len(n.children) = 4
                /\ n.children[2].type \in {"NODE_NULL_LITERAL", "NULL"}
                /\ n.children[4].type = "NODE_BLOCK"
                /\ pc = "generated" =>
                      \E i \in 1..Len(codegen.labels) :
                          codegen.labels[i].prefix = "for_condition_"

\* parse_declaration is about to look ahead: the parser runs and its current
\* token starts a type
LooksAhead ==
    /\ pc = "decl"
    /\ ~Halted(parser)
    /\ parser.current_token.type \notin DeclarationTokens
    /\ is_type_token(parser.current_token.type)
    /\ ~Halted(LookAhead(parser).p)

\* the parser with which parse_function_declaration or
\* parse_variable_declaration is entered after the look-ahead and the restore
EnteredAfterRestore == Restore(LookAhead(parser).p, parser)

\* C19: when parse_function_declaration or parse_variable_declaration is
\* entered after the look-ahead of parse_declaration and the restore, the
\* lexer's position, line and column, the current token's kind and lexeme,
\* and also error_count and panic_mode equal their values before the
\* look-ahead.
C19_LookAheadRestoresAll ==
    LooksAhead =>
        /\ EnteredAfterRestore.lexer = parser.lexer
        /\ EnteredAfterRestore.current_token = parser.current_token
        /\ EnteredAfterRestore.error_count = parser.error_count
        /\ EnteredAfterRestore.panic_mode = parser.panic_mode

\* C19, as the code has it: the lexer and the current token are restored;
\* the error count and the panic flag are not, so a look-ahead that scanned
\* an invalid token leaves one more error counted and panic mode set.
C19_LookAheadRestoresPosition ==
    LooksAhead =>
        /\ EnteredAfterRestore.lexer = parser.lexer
        /\ EnteredAfterRestore.current_token = parser.current_token
        /\ IF LookAhead(parser).p.current_token.type = "TOKEN_INVALID"
           THEN /\ EnteredAfterRestore.error_count = parser.error_count + 1
                /\ EnteredAfterRestore.panic_mode
           ELSE /\ EnteredAfterRestore.error_count = parser.error_count
                /\ EnteredAfterRestore.panic_mode = parser.panic_mode

\* a look-ahead that moved the lexer and met an invalid token
C19_Witness ==
    /\ LooksAhead
    /\ LookAhead(parser).p.lexer.position > parser.lexer.position
    /\ LookAhead(parser).p.current_token.type = "TOKEN_INVALID"

\* the arity table: whether a node of kind type may have n children
ArityTable(type, n) ==
    CASE type \in {"NODE_BINARY_OP", "NODE_ASSIGNMENT", "NODE_WHILE_STATEMENT",
                   "NODE_MEMBER_ACCESS", "NODE_ARRAY_ACCESS"} -> n = 2
      [] type \in {"NODE_UNARY_OP", "NODE_POSTFIX_OP", "NODE_PARAMETER"} -> n = 1
      [] type = "NODE_TERNARY" -> n = 3
      [] type = "NODE_IF_STATEMENT" -> n \in {2, 3}
      [] type = "NODE_FOR_STATEMENT" -> n \in {3, 4}
      [] type = "NODE_FUNCTION" -> n >= 2
      [] type = "NODE_VARIABLE_DECLARATION" -> n \in {1, 2}
      [] type \in {"NODE_CASE_STATEMENT", "NODE_SWITCH_STATEMENT"} -> n >= 1
      [] OTHER -> TRUE

\* C20: validate_ast returns false for every tree that contains, at any
\* depth, a node whose child count violates its row of the arity table, for
\* all fifteen kinds of the table.
C20_RejectsEveryArityViolation ==
    pc \in {"valid", "invalid"} =>
        ((\E n \in NodesOf(program) : ~ArityTable(n.type, Len(n.children)))
            => pc = "invalid")

\* C21: after any sequence of pool_string calls, reallocations to another
\* address included, every entry of string_refs points into the current pool
\* buffer at the 8-byte-aligned offset where its string was written (and the
\* string is there, NUL-terminated), the offsets are strictly increasing, and
\* used is a multiple of 8 not exceeding capacity.
C21_ReferenceTableFollowsPool ==
    pool # <<>> =>
        /\ Len(pool.string_refs) = Len(returned)
        /\ heap[pool.pool].live
        /\ Len(heap[pool.pool].bytes) = pool.capacity
        /\ \A i \in 1..Len(pool.string_refs) :
               /\ pool.string_refs[i].block = pool.pool
               /\ pool.string_refs[i].offset = returned[i].ptr.offset
               /\ pool.string_refs[i].offset % 8 = 0
               /\ pool.string_refs[i].offset + Len(returned[i].str) + 1 <= pool.used
               /\ BytesAt(pool.string_refs[i], Len(returned[i].str))
                      = Append(returned[i].str, NUL)
               /\ \A j \in 1..(i - 1) :
                      pool.string_refs[j].offset < pool.string_refs[i].offset
        /\ pool.used % 8 = 0
        /\ pool.used <= pool.capacity

\* the pool has moved to another address after two strings were stored, and
\* a third was stored behind them
C21_Witness ==
    /\ pool # <<>>
    /\ Len(pool.string_refs) >= 3
    /\ returned[1].ptr.block # pool.pool
    /\ returned[2].ptr.block # pool.pool
    /\ returned[3].ptr.block = pool.pool

\* C22: lowering a SWITCH_STATEMENT node as the parser builds it (the
\* scrutinee, then CASE nodes and perhaps a DEFAULT node) through
\* generate_node emits the scrutinee's push, a comparison with its jump for
\* every CASE child, the jump to the default or the end label, the bodies,
\* and the final add $8, %rsp.
C22_SwitchIsLowered ==
    pc = "generated" =>
        \A n \in NodesOf(program) :
            n.type = "NODE_SWITCH_STATEMENT" =>
                /\ \E i \in 1..Len(codegen.output), j \in 1..Len(codegen.output) :
                       /\ i < j
                       /\ codegen.output[i] = "    push %rax"
                       /\ codegen.output[j] = "    add $8, %rsp"
                /\ \E i \in 1..Len(codegen.labels) :
                       codegen.labels[i].prefix = "switch_end_"
                /\ Cardinality({i \in 1..Len(codegen.labels) :
                                   codegen.labels[i].prefix = "case_"})
                       >= Cardinality({i \in 1..Len(n.children) :
                                          n.children[i].type = "NODE_CASE_STATEMENT"})

\* the expression e of a program that is  void main() { e; }  as the parser
\* builds it, and NullNode for any other program
MainExpression ==
    LET Statement(block) ==
            IF /\ Len(block.children) = 1
               /\ block.children[1].type = "NODE_EXPRESSION_STATEMENT"
               /\ Len(block.children[1].children) = 1
            THEN block.children[1].children[1]
            ELSE NullNode
        Body(function) ==
            IF /\ function.type = "NODE_FUNCTION"
               /\ Len(function.children) = 3
               /\ Len(function.children[3].children) = 1
               /\ function.children[3].children[1].type = "NODE_BLOCK"
            THEN Statement(function.children[3].children[1])
            ELSE NullNode
    IN  IF Len(program.children) = 1 THEN Body(program.children[1]) ELSE NullNode

\* the instructions between the prologue and the epilogue of the first
\* function of the output, comments left out
BodyInstructions ==
    LET Comments == {"    # Node: " \o n.type : n \in NodesOf(program)}
                        \cup {"    # Program start", "    # Unsupported node type"}
        First == CHOOSE i \in 1..Len(codegen.output) :
                     /\ codegen.output[i] = "    sub $64, %rsp"
                     /\ \A j \in 1..(i - 1) : codegen.output[j] # "    sub $64, %rsp"
        Last == CHOOSE i \in 1..Len(codegen.output) :
                    /\ codegen.output[i] = "    mov %rbp, %rsp"
                    /\ \A j \in 1..(i - 1) : codegen.output[j] # "    mov %rbp, %rsp"
    IN  {codegen.output[i] : i \in (First + 1)..(Last - 1)} \ Comments

\* the instructions of the generator that leave a value in %rax
WritesRax ==
    {"    mov $" \o ToString(k) \o ", %rax" : k \in 0..97}
        \cup {"    mov $str" \o ToString(k) \o ", %rax" : k \in 0..3}
        \cup {"    mov " \o ToString(k) \o "(%rbp), %rax" : k \in -80..80}
        \cup {"    lea $" \o ToString(k) \o ", %rax" : k \in -80..80}
        \cup {"    mov $, %rax", "    mov $1.5, %rax", "    mov (%rax), %rax",
              "    mov %rdx, %rax", "    add %rbx, %rax", "    sub %rbx, %rax",
              "    imul %rbx, %rax", "    imul $8, %rax", "    idiv %rbx", "    neg %rax",
              "    not %rax", "    pop %rax", "    movzb %al, %rax", "    add $0, %rax",
              "    add %rbp, %rax", "    call null", "    call f"}

\* C23: for every expression kind the parser can produce, the code that
\* generate_node emits for the expression is not empty and leaves the result
\* in %rax.
C23_ExpressionsLandInRax ==
    (pc = "generated" /\ MainExpression # NullNode) =>
        BodyInstructions \cap WritesRax # {}

\* C24: for every function of a program, whatever was lowered before it, its
\* i-th parameter (counted from 0, in declaration order) is recorded in the
\* symbol table with stack offset 16 + 8 * i.
C24_ParameterOffsets ==
    \A k \in 1..Len(codegen.added) :
        codegen.added[k].var.is_parameter =>
            codegen.added[k].var.stack_offset
                = 16 + 8 * Cardinality({j \in 1..(k - 1) :
                                           /\ codegen.added[j].var.is_parameter
                                           /\ codegen.added[j].func_count
                                                  = codegen.added[k].func_count})

\* C25: every local variable's slot lies inside the 64 bytes that its
\* function's prologue reserves, for any number of functions and locals:
\* -64 <= offset < 0 and offset + size <= 0.
C25_LocalsInsideFrame ==
    \A k \in 1..Len(codegen.added) :
        (~codegen.added[k].var.is_parameter /\ ~codegen.added[k].var.is_global) =>
            /\ -64 <= codegen.added[k].var.stack_offset
            /\ codegen.added[k].var.stack_offset < 0
            /\ codegen.added[k].var.stack_offset + codegen.added[k].var.size <= 0

\* the label string of entry k of codegen.labels, as generate_label returned it
GeneratedLabel(k) == codegen.labels[k].prefix \o ToString(codegen.labels[k].number)

\* C26: in the assembly generate() produces, every generated label that is
\* the operand of a je, jne or jmp is defined by exactly one label line, and
\* no two calls of generate_label return the same label string.
C26_JumpTargetsDefinedOnce ==
    pc = "generated" =>
        \A k \in 1..Len(codegen.labels) :
            /\ (\E i \in 1..Len(codegen.output) :
                    codegen.output[i] \in {"    je " \o GeneratedLabel(k),
                                           "    jne " \o GeneratedLabel(k),
                                           "    jmp " \o GeneratedLabel(k)})
               => Cardinality({i \in 1..Len(codegen.output) :
                                  codegen.output[i] = GeneratedLabel(k) \o ":"}) = 1
            /\ \A j \in 1..(k - 1) : GeneratedLabel(j) # GeneratedLabel(k)

\* the source opens with a comment: // or /*
OpensComment(source) ==
    Len(source) >= 2 /\ source[1] = "/" /\ source[2] \in {"/", "*"}

\* where the comment that opens the source closes: the end of its line or
\* of its matching */
Closings(source) ==
    IF source[2] = "/"
    THEN {i \in 3..Len(source) : source[i] = "\n"}
    ELSE {i \in 3..(Len(source) - 1) : source[i] = "*" /\ source[i + 1] = "/"}

\* the number of characters of the comment that opens the source
CommentEnd(source) ==
    LET First == CHOOSE i \in Closings(source) : \A j \in Closings(source) : i <= j
    IN  CASE Closings(source) = {} -> Len(source)
          [] Closings(source) # {} /\ source[2] = "/" -> First - 1
          [] OTHER -> First + 1

\* C27: no character inside a comment becomes part of a token: the token
\* scanned from the start of a source that opens with a comment begins after
\* the comment, and it is TOKEN_EOF when the comment is an unclosed /*.
C27_CommentsNeverBecomeTokens ==
    [][(lexer.position = 0 /\ OpensComment(lexer.source)) =>
           /\ next_token(lexer).start >= CommentEnd(lexer.source)
           /\ (lexer.source[2] = "*" /\ Closings(lexer.source) = {})
                  => tok'.type = "TOKEN_EOF"]_vars

\* position, line and column of the lexer l agree with its source
Consistent(l) ==
    LET Newlines == {i \in 1..l.position : l.source[i] = "\n"}
        LineStart == IF Newlines = {} THEN 0
                     ELSE CHOOSE i \in Newlines : \A j \in Newlines : j <= i
    IN  /\ 0 <= l.position
        /\ l.position <= l.length
        /\ l.line = 1 + Cardinality(Newlines)
        /\ l.column = 1 + (l.position - LineStart)

\* C28: in every lexer state, after any sequence of next_token calls and
\* speculative restores, 0 <= position <= length, line is 1 plus the number
\* of newlines before position, and column is 1 plus the number of
\* characters between the last such newline and position.
C28_PositionLineColumn ==
    /\ Consistent(lexer)
    /\ Consistent(parser.lexer)
    /\ LooksAhead => /\ Consistent(LookAhead(parser).p.lexer)
                     /\ Consistent(EnteredAfterRestore.lexer)

\* a look-ahead that starts on line 2 and crosses a newline before the restore
C28_Witness ==
    /\ LooksAhead
    /\ lexer.line = 2
    /\ LookAhead(parser).p.lexer.line = 3
    /\ EnteredAfterRestore.lexer.line = 2
    /\ EnteredAfterRestore.lexer.column > 1

(***************************************************************************)
(* The string table driven on its own: one generator, find_string_index    *)
(* called with one text after another.                                     *)
(***************************************************************************)
MaxLookups == 4

\* create_code_generator: string_count = 0
TableInit ==
    /\ codegen = create_code_generator("OPT_NONE")
    /\ Idle({"codegen"})

\* int str_index = find_string_index(gen, str)
FindStringIndex ==
    /\ Len(codegen.lookups) < MaxLookups
    /\ \E str \in {<<>>, <<"a">>, <<"a", "b">>, <<"%", "d">>} :
          codegen' = find_string_index(codegen, str).gen
    /\ UNCHANGED <<frontVars, pool, heap, returned, nodes, roots, driver>>

TableSpec == TableInit /\ [][FindStringIndex]_vars

\* C29: the string table is deduplicating and stable: no two entries are
\* equal, a text gets the same index at every lookup, the indices are
\* 0, 1, 2, ... in the order in which the texts first occur, and the entry
\* at an index that was handed out stays the text it was handed out for.
C29_TableDeduplicates ==
    /\ \A i, j \in 1..Len(codegen.strings) :
           i # j => codegen.strings[i] # codegen.strings[j]
    /\ \A k \in 1..Len(codegen.lookups) :
           /\ codegen.lookups[k].index \in 0..(Len(codegen.strings) - 1)
           /\ codegen.strings[codegen.lookups[k].index + 1] = codegen.lookups[k].str
           /\ \A j \in 1..(k - 1) :
                  codegen.lookups[j].str = codegen.lookups[k].str
                      => codegen.lookups[j].index = codegen.lookups[k].index
           \* a text not looked up before gets the next unused index
           /\ (\A j \in 1..(k - 1) : codegen.lookups[j].str # codegen.lookups[k].str)
                  => codegen.lookups[k].index
                         = Cardinality({codegen.lookups[j].str : j \in 1..(k - 1)})
    /\ Len(codegen.strings)
           = Cardinality({codegen.lookups[k].str : k \in 1..Len(codegen.lookups)})

\* a text looked up again after another text was added
C29_Witness ==
    /\ Len(codegen.lookups) = MaxLookups
    /\ codegen.lookups[1].str # codegen.lookups[2].str
    /\ codegen.lookups[3].str = codegen.lookups[1].str
    /\ codegen.lookups[3].index = 0
    /\ codegen.lookups[4].str \notin {codegen.lookups[1].str, codegen.lookups[2].str}
    /\ codegen.lookups[4].index = 2

(***************************************************************************)
(* The command line: main calls parse_arguments on argv[1..] and then      *)
(* compile_file, which creates a code generator, for every input file.     *)
(* The files hold no declaration: their tree is an empty NODE_PROGRAM.     *)
(***************************************************************************)
MaxArgs == 3

\* the for loop of parse_arguments over argv, from the options opts on
RECURSIVE parse_arguments(_, _)
parse_arguments(opts, argv) ==
    LET arg == Head(argv)
        Rest(opts1) == parse_arguments(opts1, Tail(argv))
    IN  CASE argv = <<>> -> opts
          [] argv # <<>> /\ arg = "-c" -> Rest([opts EXCEPT !.compile_only = TRUE])
          [] argv # <<>> /\ arg = "-O0" -> Rest([opts EXCEPT !.opt_level = "OPT_NONE"])
          [] argv # <<>> /\ arg \in {"-O1", "-O2"} ->
                Rest([opts EXCEPT !.opt_level = "OPT_SPEED"])
          [] argv # <<>> /\ arg = "-Os" -> Rest([opts EXCEPT !.opt_level = "OPT_SIZE"])
          [] argv # <<>> /\ arg = "-g" ->
                Rest([opts EXCEPT !.debug_info = TRUE, !.opt_level = "OPT_DEBUG"])
          [] argv # <<>> /\ arg = "-S" -> Rest([opts EXCEPT !.keep_asm = TRUE])
          [] argv # <<>> /\ arg \in {"a.c", "b.c"} ->
                Rest([opts EXCEPT !.input_files = Append(@, arg)])
          \* Unknown option: exit(1)
          [] OTHER -> [opts EXCEPT !.exited = TRUE]

OptionsInit ==
    /\ \E argv \in SeqsUpTo({"-g", "-O0", "-O1", "-O2", "-Os", "-c", "-S", "a.c", "b.c",
                              "-x"}, MaxArgs) :
          driver = [argv |-> argv, pc |-> "arguments", i |-> 0,
                    opts |-> [opt_level |-> "OPT_NONE", debug_info |-> FALSE,
                              compile_only |-> FALSE, keep_asm |-> FALSE,
                              input_files |-> <<>>, exited |-> FALSE]]
    /\ codegen = <<>>
    /\ Idle({"driver", "codegen"})

\* struct compile_options opts = parse_arguments(argc, argv)
ParseArguments ==
    /\ driver.pc = "arguments"
    /\ driver' = [driver EXCEPT !.opts = parse_arguments(@, driver.argv),
                                !.pc = IF parse_arguments(driver.opts, driver.argv).exited
                                       THEN "exited" ELSE "compile"]
    /\ UNCHANGED <<frontVars, pool, heap, returned, nodes, roots, codegen>>

\* compile_file(opts.input_files[i], &opts): the generator and its assembly
CodeGeneration ==
    /\ driver.pc = "compile"
    /\ driver.i < Len(driver.opts.input_files)
    /\ codegen' = generate(create_code_generator(driver.opts.opt_level),
                           create_node("NODE_PROGRAM"))
    /\ driver' = [driver EXCEPT !.i = @ + 1]
    /\ UNCHANGED <<frontVars, pool, heap, returned, nodes, roots>>

OptionsSpec == OptionsInit /\ [][ParseArguments \/ CodeGeneration]_vars

\* C30: whenever -g is among the arguments, in any position and with any
\* other flags, the code generator used for each file has its debug-info
\* flag set and writes "# ..." comments into the assembly.
C30_DebugFlagReachesGenerator ==
    (driver.pc = "compile" /\ driver.i > 0
         /\ \E k \in 1..Len(driver.argv) : driver.argv[k] = "-g") =>
        /\ codegen.debug_info
        /\ \E i \in 1..Len(codegen.output) :
               codegen.output[i] = "    # Node: NODE_PROGRAM"

====
